---- MODULE Spec2Model ----
(***************************************************************************)
(* eccpem: generation of EC key pairs into PEM files and reading them      *)
(* back into caller-supplied byte arrays.                                  *)
(*                                                                         *)
(* Modelled code                                                           *)
(*   src/src/utils.c           VerifyPemFileFormat                         *)
(*   src/src/eccpem_write.c    CreateECCKeysPemFiles and WriteKeysToPEM-   *)
(*                             Files, lines 43-149 (EVP_PKEY_CTX keygen,   *)
(*                             stdio FILE handles)                         *)
(*   src/unnamed/part_003      ReadPrivateKeyPemFile (BN_bn2binpad) and    *)
(*                             ReadPublicKeyPemFile (EC_POINT_point2oct)   *)
(*   src/src/eccpem_write.c    lines 196-356: the older CreateECCKeysPem-  *)
(*                             Files (EC_KEY) and WriteKeysToPEMFiles      *)
(*                             (BIOs), in SpecV1                           *)
(*   src/src/eccpem_read.c     the two older versions of the read          *)
(*                             functions: BN_new and memcpy (SpecV1),      *)
(*                             memset and BN_bn2bin (SpecV2), both with    *)
(*                             i2o_ECPublicKey                             *)
(*                                                                         *)
(* A call is a sequence of steps of a caller p; the position of the call   *)
(* is pc[p].  The file system, the stdio handles and the caller's array    *)
(* are state.  The OpenSSL calls are modelled by what they do to that      *)
(* state: PEM/DER encoding stores the scalar as a fixed-width octet string *)
(* and the point in uncompressed form, decoding turns octets back into     *)
(* numbers without leading zeros, BN_bn2binpad and EC_POINT_point2oct      *)
(* produce the bytes of the array.                                         *)
(*                                                                         *)
(* Failures of the environment are those the code tests for: fopen and the *)
(* PEM writers may fail, library calls may return NULL.  The code ignores  *)
(* the result of fclose; fclose is taken to flush and close.               *)
(* The library objects a call acquires and frees are logged in res.        *)
(***************************************************************************)
EXTENDS Integers, Sequences, FiniteSets, TLC

(***************************************************************************)
(* Bounds of the model                                                     *)
(***************************************************************************)
\* key pairs that key generation can produce, per curve
NKeys == 2
\* longest path string given to VerifyPemFileFormat in SpecVerify
MaxPathLen == 5
\* cells of the caller's array that the model observes
BufCap == 50

(***************************************************************************)
(* C strings: a pointer is NULL or points to a sequence of characters      *)
(***************************************************************************)
NULL == [null |-> TRUE, str |-> <<>>]

S(s) == [null |-> FALSE, str |-> s]

PemExt == <<".", "p", "e", "m">>

\* strrchr(s, '.'): index of the last '.', 0 when there is none
strrchr_dot(s) ==
  IF \E i \in 1..Len(s) : s[i] = "."
  THEN CHOOSE i \in 1..Len(s) : s[i] = "." /\ \A j \in (i+1)..Len(s) : s[j] # "."
  ELSE 0

\* strchr(s, '.'): index of the first '.', 0 when there is none
strchr_dot(s) ==
  IF \E i \in 1..Len(s) : s[i] = "."
  THEN CHOOSE i \in 1..Len(s) : s[i] = "." /\ \A j \in 1..(i-1) : s[j] # "."
  ELSE 0

\* utils.c with strchr in the place of strrchr
VerifyPemFileFormat_firstdot(pem_file) ==
  IF pem_file.null THEN 0
  ELSE LET dot == strchr_dot(pem_file.str)
       IN  IF dot = 0 THEN 0
           ELSE IF SubSeq(pem_file.str, dot, Len(pem_file.str)) # PemExt THEN 0
           ELSE 1

VerifyPemFileFormat(pem_file) ==
  IF pem_file.null THEN 0
  ELSE LET pem_file_last_dot == strrchr_dot(pem_file.str)
       IN  IF pem_file_last_dot = 0 THEN 0
           ELSE IF SubSeq(pem_file.str, pem_file_last_dot, Len(pem_file.str)) # PemExt
                THEN 0
           ELSE 1

(***************************************************************************)
(* Paths used by the callers                                               *)
(***************************************************************************)
PubPem == S(<<"p", "u", "b", ".", "p", "e", "m">>)
PrivPem == S(<<"p", "r", "i", "v", ".", "p", "e", "m">>)
KeyTxt == S(<<"k", "e", "y", ".", "t", "x", "t">>)
\* fixtures that hold keys which are not EC keys
RsaPrivPem == S(<<"r", "s", "a", ".", "p", "e", "m">>)
RsaPubPem == S(<<"r", "s", "a", "p", ".", "p", "e", "m">>)

\* the paths of a second key pair, for a caller that runs at the same time
Pub2Pem == S(<<"p", "u", "b", "2", ".", "p", "e", "m">>)
Priv2Pem == S(<<"p", "r", "i", "v", "2", ".", "p", "e", "m">>)

\* paths a key pair is written to
WritePaths == {NULL, PubPem, PrivPem, KeyTxt}
\* paths a key is read from
ReadPaths == {NULL, PubPem, PrivPem, KeyTxt, RsaPrivPem, RsaPubPem}
\* names of the files of the file system
FileNames == {q.str : q \in (ReadPaths \cup {Pub2Pem, Priv2Pem}) \ {NULL}}

(***************************************************************************)
(* Curves and key pairs.  The scalars and points are real key pairs        *)
(* (d, d*G) of the named curves, as big-endian byte strings without        *)
(* leading zeros (the value of a BIGNUM).                                  *)
(***************************************************************************)
FieldLen(curve) ==
  CASE curve = "prime256v1" -> 32
    [] curve = "secp224r1" -> 28
    [] curve = "secp384r1" -> 48
    [] OTHER -> 0

KnownCurves == {"prime256v1", "secp224r1", "secp384r1"}

\* curve names given to CreateECCKeysPemFiles; "" stands for ec_type == NULL
CurveArgs == KnownCurves \cup {"not_a_curve", ""}

Prime256v1Keys ==
  <<
  [d |-> <<1, 123>>,
   x |-> <<85, 67, 137, 74, 243, 208, 14, 215, 215, 64, 171, 219, 215, 92,
          150, 176, 104, 119, 183, 135, 219, 95, 112, 238, 167, 139, 144,
          168, 215, 192, 10>>,
   y |-> <<187, 76, 133, 163, 216, 234, 41, 239, 170, 250, 36, 64, 105, 18,
          221, 132, 213, 177, 77, 195, 43, 246, 86, 239, 108, 107, 213,
          138, 93, 148, 63, 146>>],
  [d |-> <<4, 80, 182, 21, 93, 157, 170, 33, 135, 198, 135, 200, 104, 50,
          201, 72, 148, 19, 15, 159, 249, 219, 140, 146, 34, 10, 189, 42,
          195, 68, 167, 116>>,
   x |-> <<93, 249, 184, 176, 217, 131, 30, 175, 173, 52, 198, 253, 245,
          171, 182, 215, 255, 34, 188, 221, 51, 10, 103, 138, 60, 211, 136,
          132, 252, 141, 6, 149>>,
   y |-> <<61, 76, 188, 127, 133, 126, 174, 105, 5, 90, 61, 86, 4, 208, 41,
          47, 9, 106, 197, 9, 228, 75, 188, 28, 178, 251, 108, 88, 145,
          107, 113, 61>>],
  [d |-> <<214, 107, 12, 156, 168, 252, 120, 93, 179, 122, 242, 178, 0,
          107, 249, 238, 119, 233, 173, 79, 75, 91, 203, 169, 214, 64, 90,
          144, 38, 253, 3>>,
   x |-> <<239, 87, 16, 122, 55, 236, 202, 218, 34, 28, 169, 238, 26, 240,
          253, 245, 175, 143, 238, 124, 15, 221, 24, 44, 193, 41, 72, 227,
          146, 125, 144, 43>>,
   y |-> <<36, 127, 174, 27, 108, 89, 46, 69, 193, 218, 105, 149, 222, 187,
          60, 226, 244, 239, 250, 78, 8, 173, 212, 154, 19, 69, 76, 52,
          173, 20, 228, 144>>]
  >>

Secp224r1Keys ==
  <<
  [d |-> <<1, 105>>,
   x |-> <<255, 206, 225, 48, 38, 88, 43, 171, 109, 131, 75, 90, 23, 232,
          56, 200, 73, 119, 180, 212, 190, 89, 11, 225, 62, 15, 168>>,
   y |-> <<61, 242, 189, 228, 103, 239, 70, 234, 100, 215, 15, 178, 26,
          196, 239, 144, 220, 108, 194, 43, 87, 100, 184, 99, 210, 60, 229,
          17>>],
  [d |-> <<2, 253, 132, 99, 240, 210, 97, 194, 136, 219, 68, 49, 69, 89,
          154, 139, 18, 167, 190, 130, 240, 235, 240, 122, 221, 15, 208,
          56>>,
   x |-> <<175, 250, 62, 90, 157, 28, 182, 6, 62, 73, 49, 176, 61, 247, 73,
          12, 255, 249, 54, 59, 134, 88, 185, 90, 114, 213, 142, 133>>,
   y |-> <<27, 99, 7, 15, 40, 103, 159, 152, 36, 40, 15, 7, 204, 244, 8,
          68, 145, 243, 243, 163, 175, 122, 253, 90, 169, 54, 15, 14>>],
  [d |-> <<211, 115, 101, 29, 140, 181, 129, 252, 41, 56, 76, 17, 43, 72,
          99, 208, 75, 184, 1, 97, 111, 85, 202, 177, 86, 69, 148>>,
   x |-> <<28, 139, 40, 178, 36, 90, 81, 54, 93, 55, 139, 96, 96, 76, 56,
          36, 151, 146, 29, 207, 78, 131, 224, 92, 155, 179, 219, 34>>,
   y |-> <<12, 229, 117, 210, 124, 226, 248, 216, 71, 14, 189, 121, 137,
          221, 28, 46, 23, 130, 186, 80, 201, 192, 111, 7, 164, 150, 221,
          220>>]
  >>

Secp384r1Keys ==
  <<
  [d |-> <<197>>,
   x |-> <<77, 16, 75, 38, 238, 86, 113, 247, 44, 16, 201, 134, 132, 29,
          62, 101, 210, 133, 226, 81, 97, 97, 183, 186, 163, 65, 177, 38,
          49, 185, 227, 43, 111, 13, 88, 150, 216, 67, 28, 81, 213, 217,
          58, 55, 203, 201, 14>>,
   y |-> <<241, 26, 30, 63, 139, 123, 144, 83, 142, 228, 44, 192, 14, 233,
          52, 166, 226, 238, 37, 84, 22, 7, 216, 251, 101, 199, 168, 177,
          30, 47, 136, 104, 83, 136, 110, 239, 56, 101, 236, 147, 50, 0,
          185, 242, 85, 153, 242, 159>>],
  [d |-> <<69, 186, 126, 125, 128, 130, 214, 207, 250, 223, 74, 244, 170,
          26, 131, 164, 174, 14, 168, 139, 19, 44, 98, 113, 82, 69, 109,
          98, 87, 85, 93, 161, 237, 250, 130, 208, 122, 50, 98, 158, 49,
          207, 141, 42, 148, 13, 79, 161>>,
   x |-> <<66, 249, 77, 39, 51, 20, 89, 56, 54, 191, 182, 238, 111, 84, 21,
          51, 214, 49, 164, 115, 229, 100, 146, 185, 134, 246, 148, 28,
          179, 98, 204, 10, 98, 240, 81, 215, 125, 169, 2, 90, 137, 64, 54,
          55, 59, 250, 20, 195>>,
   y |-> <<77, 155, 139, 187, 138, 182, 197, 17, 241, 234, 7, 225, 197,
          252, 2, 242, 126, 101, 251, 198, 177, 210, 251, 235, 176, 188,
          237, 127, 4, 166, 108, 204, 154, 193, 221, 68, 67, 195, 101, 141,
          47, 165, 42, 245, 66, 26, 50>>],
  [d |-> <<100, 178, 218, 123, 121, 233, 28, 195, 75, 119, 62, 188, 75, 5,
          105, 73, 160, 250, 27, 199, 38, 61, 21, 92, 116, 67, 103, 47,
          119, 172, 228, 2, 250, 210, 77, 232, 108, 215, 105, 188, 27, 155,
          37, 151, 169, 196, 155>>,
   x |-> <<226, 188, 246, 197, 11, 60, 47, 92, 49, 17, 166, 196, 164, 41,
          114, 120, 91, 154, 190, 149, 38, 158, 35, 218, 1, 28, 105, 242,
          78, 121, 81, 120, 158, 127, 226, 230, 82, 236, 63, 28, 83, 72,
          182, 63, 104, 190, 230, 14>>,
   y |-> <<74, 34, 2, 225, 109, 174, 31, 33, 185, 95, 86, 189, 51, 95, 17,
          200, 211, 255, 16, 156, 130, 13, 63, 236, 18, 79, 227, 252, 151,
          25, 21, 50, 185, 6, 140, 76, 180, 151, 233, 175, 11, 153, 11,
          199, 19, 191, 79, 1>>]
  >>

KeyTable(curve) ==
  CASE curve = "prime256v1" -> Prime256v1Keys
    [] curve = "secp224r1" -> Secp224r1Keys
    [] curve = "secp384r1" -> Secp384r1Keys

\* the NULL EVP_PKEY
NoKey == [alg |-> "", curve |-> "", d |-> <<>>, x |-> <<>>, y |-> <<>>]

\* the keys EVP_PKEY_keygen can return for a curve
KeysOf(curve) ==
  {[alg |-> "EC", curve |-> curve, d |-> KeyTable(curve)[i].d,
    x |-> KeyTable(curve)[i].x, y |-> KeyTable(curve)[i].y] : i \in 1..NKeys}

\* a lookup that falls back to a default curve for unknown names
OBJ_txt2nid_default(name) == IF name \in KnownCurves THEN name ELSE "prime256v1"

\* OBJ_txt2nid: the curve of a name, "undef" (NID_undef) for an unknown name
OBJ_txt2nid(name) == IF name \in KnownCurves THEN name ELSE "undef"

(***************************************************************************)
(* Numbers and octet strings                                               *)
(***************************************************************************)
Zeros(n) == [i \in 1..n |-> 0]

\* BN_bin2bn: the number of an octet string, i.e. without its leading zeros
RECURSIVE BN_bin2bn(_)
BN_bin2bn(s) ==
  IF s = <<>> THEN <<>>
  ELSE IF s[1] = 0 THEN BN_bin2bn(Tail(s))
  ELSE s

BN_num_bytes(a) == Len(a)

\* a conversion that also fails when a fills tolen bytes exactly
BN_bn2binpad_strict(a, tolen) ==
  IF tolen <= BN_num_bytes(a)
  THEN [ret |-> 0 - 1, bytes |-> <<>>]
  ELSE [ret |-> tolen, bytes |-> Zeros(tolen - BN_num_bytes(a)) \o a]

\* the conversion of the memset + BN_bn2bin variant: a left-aligned
BN_bn2bin_zeroed(a, tolen) ==
  IF tolen < BN_num_bytes(a)
  THEN [ret |-> 0 - 1, bytes |-> <<>>]
  ELSE [ret |-> tolen, bytes |-> a \o Zeros(tolen - BN_num_bytes(a))]

\* BN_bn2binpad(a, to, tolen): -1 when a needs more than tolen bytes,
\* else tolen bytes, a right-aligned behind zeros
BN_bn2binpad(a, tolen) ==
  IF tolen < BN_num_bytes(a)
  THEN [ret |-> 0 - 1, bytes |-> <<>>]
  ELSE [ret |-> tolen, bytes |-> Zeros(tolen - BN_num_bytes(a)) \o a]

\* BN_bn2bin(a, to): the BN_num_bytes(a) bytes of a, written from to[0] on
\* without padding; it is given no length.  Returns the number of bytes,
\* which is 0 for the number 0.
BN_bn2bin(a) == [ret |-> BN_num_bytes(a), bytes |-> a]

\* i2o_ECPublicKey(ec_key, &out) of a key whose conversion form is
\* POINT_CONVERSION_COMPRESSED: writes 2 + (y mod 2), then x in field length
\* bytes, and returns their number; it is given no length.
i2o_ECPublicKey(key) ==
  LET field_len == FieldLen(key.curve)
      y_bit == IF key.y = <<>> THEN 0 ELSE key.y[Len(key.y)] % 2
  IN  [ret |-> 1 + field_len,
       bytes |-> <<2 + y_bit>> \o BN_bn2binpad(key.x, field_len).bytes]

\* a conversion that takes the parity from the first byte of y
EC_POINT_point2oct_msb(group, point, len) ==
  LET field_len == FieldLen(group)
      y_bit == IF point.y = <<>> THEN 0 ELSE point.y[1] % 2
  IN  IF len < 1 + field_len
      THEN [ret |-> 0, bytes |-> <<>>]
      ELSE [ret |-> 1 + field_len,
            bytes |-> <<2 + y_bit>> \o BN_bn2binpad(point.x, field_len).bytes]

\* a conversion that does not look at len (as i2o_ECPublicKey, which is
\* given no length)
EC_POINT_point2oct_nolen(group, point, len) ==
  LET field_len == FieldLen(group)
      y_bit == IF point.y = <<>> THEN 0 ELSE point.y[Len(point.y)] % 2
  IN  [ret |-> 1 + field_len,
       bytes |-> <<2 + y_bit>> \o BN_bn2binpad(point.x, field_len).bytes]

\* EC_POINT_point2oct(group, point, POINT_CONVERSION_COMPRESSED, buf, len):
\* 0 when len is less than 1 + field length, else the 1 + field length bytes
\* written: 2 + (y mod 2), then x in field length bytes
EC_POINT_point2oct(group, point, len) ==
  LET field_len == FieldLen(group)
      y_bit == IF point.y = <<>> THEN 0 ELSE point.y[Len(point.y)] % 2
  IN  IF len < 1 + field_len
      THEN [ret |-> 0, bytes |-> <<>>]
      ELSE [ret |-> 1 + field_len,
            bytes |-> <<2 + y_bit>> \o BN_bn2binpad(point.x, field_len).bytes]

(***************************************************************************)
(* Files: content of a PEM file as label and DER payload                   *)
(***************************************************************************)
Blank(kind) ==
  [kind |-> kind, label |-> "", alg |-> "", curve |-> "",
   priv |-> <<>>, pub |-> <<>>]

Absent == Blank("absent")
\* a file of length 0, as fopen(.., "w") leaves it
Empty == Blank("empty")
\* a PEM text that stops before its END line
Partial == Blank("partial")
\* text that is no PEM block
Garbage == Blank("text")
\* a block whose END line does not match its BEGIN line
Mismatched == Blank("mismatched")

\* DER OCTET STRING of a number in n bytes
OctetString(a, n) == Zeros(n - Len(a)) \o a

\* the uncompressed octets 04 || X || Y of a point
PointOctets(pkey) ==
  <<4>> \o OctetString(pkey.x, FieldLen(pkey.curve))
        \o OctetString(pkey.y, FieldLen(pkey.curve))

\* PEM_write_PrivateKey: PKCS#8 block; the scalar is an octet string of
\* the width of the curve, the public point is included
PEM_write_PrivateKey(pkey) ==
  [kind |-> "pem", label |-> "PRIVATE KEY", alg |-> pkey.alg,
   curve |-> pkey.curve,
   priv |-> OctetString(pkey.d, FieldLen(pkey.curve)),
   pub |-> PointOctets(pkey)]

\* PEM_write_PUBKEY: SubjectPublicKeyInfo block
PEM_write_PUBKEY(pkey) ==
  [kind |-> "pem", label |-> "PUBLIC KEY", alg |-> pkey.alg,
   curve |-> pkey.curve, priv |-> <<>>, pub |-> PointOctets(pkey)]

\* the point of the octets 04 || X || Y
Decode_x(c) == BN_bin2bn(SubSeq(c.pub, 2, 1 + FieldLen(c.curve)))

Decode_y(c) == BN_bin2bn(SubSeq(c.pub, 2 + FieldLen(c.curve), Len(c.pub)))

\* a reader that accepts only the traditional "EC PRIVATE KEY" label
PEM_read_PrivateKey_traditional(c) ==
  IF c.kind = "pem" /\ c.label = "EC PRIVATE KEY"
  THEN [alg |-> c.alg, curve |-> c.curve, d |-> BN_bin2bn(c.priv),
        x |-> Decode_x(c), y |-> Decode_y(c)]
  ELSE NoKey

\* PEM_read_PrivateKey: the key of a complete private-key block, else NULL
PEM_read_PrivateKey(c) ==
  IF c.kind = "pem" /\ c.label = "PRIVATE KEY"
  THEN [alg |-> c.alg, curve |-> c.curve, d |-> BN_bin2bn(c.priv),
        x |-> Decode_x(c), y |-> Decode_y(c)]
  ELSE NoKey

\* a reader that takes the public point of any complete block
PEM_read_PUBKEY_anylabel(c) ==
  IF c.kind = "pem"
  THEN [alg |-> c.alg, curve |-> c.curve, d |-> <<>>,
        x |-> Decode_x(c), y |-> Decode_y(c)]
  ELSE NoKey

\* PEM_read_PUBKEY: the key of a complete public-key block, else NULL
PEM_read_PUBKEY(c) ==
  IF c.kind = "pem" /\ c.label = "PUBLIC KEY"
  THEN [alg |-> c.alg, curve |-> c.curve, d |-> <<>>,
        x |-> Decode_x(c), y |-> Decode_y(c)]
  ELSE NoKey

\* the fixtures: keys of another algorithm
RsaPrivContent ==
  [kind |-> "pem", label |-> "PRIVATE KEY", alg |-> "RSA", curve |-> "",
   priv |-> <<>>, pub |-> <<>>]

RsaPubContent ==
  [kind |-> "pem", label |-> "PUBLIC KEY", alg |-> "RSA", curve |-> "",
   priv |-> <<>>, pub |-> <<>>]

\* a key file of another origin whose scalar is 0: the library reads it
\* without checking the range of the scalar
ZeroScalarKey ==
  [alg |-> "EC", curve |-> "prime256v1", d |-> <<>>,
   x |-> Prime256v1Keys[1].x, y |-> Prime256v1Keys[1].y]

(***************************************************************************)
(* State                                                                   *)
(***************************************************************************)
Procs == {1, 2}

\* the callers that run in Spec: calls are made one after the other
SeqProcs == {1}

VARIABLES
  fs,            \* file name -> content
  wrote,         \* file name -> key whose PEM block fills the file (history)
  lastOK,        \* the last CreateECCKeysPemFiles that returned 1 and whose
                 \* two files were not opened for writing since (history)
  pc,            \* position of the call of p
  op,            \* API function p called
  ec_type,       \* arguments of the call
  pubkey_file,
  privkey_file,
  arr_null,      \* private_key / public_key == NULL
  key_size,      \* key_size / compressed_key_size
  pkey,          \* EVP_PKEY of the call, NoKey when NULL
  ret,           \* return value, meaningful when pc[p] = "done"
  buf,           \* private_key[] / public_key[] of the caller
  touched,       \* indices of buf the call has written
  fault,         \* failure of the environment the call met, "none" if none
  fs0,           \* fs when the call was made (history)
  flog,          \* fopen / fclose calls of the call, in order (history)
  res,           \* library objects the call acquired and released, in
                 \* order (history)
  pem_file,      \* argument of a direct call of VerifyPemFileFormat
  vret,          \* its result
  vdone          \* the direct call has returned

filevars == <<fs, wrote, lastOK>>

argvars == <<op, ec_type, pubkey_file, privkey_file, arr_null, key_size, fs0>>

verifyvars == <<pem_file, vret, vdone>>

vars ==
  <<fs, wrote, lastOK, pc, op, ec_type, pubkey_file, privkey_file, arr_null,
    key_size, pkey, ret, buf, touched, fault, fs0, flog, res, pem_file,
    vret, vdone>>

NoPair == [valid |-> FALSE, pub |-> <<>>, priv |-> <<>>, key |-> NoKey]

\* the array of the caller before the call
FreshBuf == [i \in 1..BufCap |-> 170]

\* fs0 of a caller that is in no call
NoSnapshot == [f \in FileNames |-> Absent]

\* contents pub.pem and priv.pem can have before the first call
InitContents == {Absent, Garbage, Mismatched}

InitFixed ==
  /\ wrote = [f \in FileNames |-> NoKey]
  /\ lastOK = NoPair
  /\ pc = [p \in Procs |-> "idle"]
  /\ op = [p \in Procs |-> "none"]
  /\ ec_type = [p \in Procs |-> ""]
  /\ pubkey_file = [p \in Procs |-> NULL]
  /\ privkey_file = [p \in Procs |-> NULL]
  /\ arr_null = [p \in Procs |-> TRUE]
  /\ key_size = [p \in Procs |-> 0]
  /\ pkey = [p \in Procs |-> NoKey]
  /\ ret = [p \in Procs |-> 0]
  /\ buf = [p \in Procs |-> FreshBuf]
  /\ touched = [p \in Procs |-> {}]
  /\ fault = [p \in Procs |-> "none"]
  /\ flog = [p \in Procs |-> <<>>]
  /\ res = [p \in Procs |-> <<>>]

FixtureContent(f, c_pub, c_priv) ==
  CASE f = PubPem.str -> c_pub
    [] f = PrivPem.str -> c_priv
    [] f = RsaPrivPem.str -> RsaPrivContent
    [] f = RsaPubPem.str -> RsaPubContent
    [] OTHER -> Garbage

Init ==
  /\ InitFixed
  /\ \E c_pub \in InitContents, c_priv \in InitContents :
       fs = [f \in FileNames |-> FixtureContent(f, c_pub, c_priv)]
  /\ fs0 = [p \in Procs |-> NoSnapshot]
  /\ pem_file = NULL
  /\ vret = 0
  /\ vdone = FALSE

(***************************************************************************)
(* Steps shared by the calls                                               *)
(***************************************************************************)
Goto(p, label) == pc' = [pc EXCEPT ![p] = label]

\* return r
Return(p, r) ==
  /\ pc' = [pc EXCEPT ![p] = "done"]
  /\ ret' = [ret EXCEPT ![p] = r]

Log(p, call, h, ok) ==
  flog' = [flog EXCEPT ![p] = Append(@, [call |-> call, h |-> h, ok |-> ok])]

Fail(p, what) == fault' = [fault EXCEPT ![p] = what]

\* a library call that returns a new object, or a new reference to one,
\* the caller has to free
Acquire(log, obj) == Append(log, [call |-> "new", obj |-> obj])

\* EVP_PKEY_CTX_free, EVP_PKEY_free, EC_KEY_free
Release(log, obj) == Append(log, [call |-> "free", obj |-> obj])

\* what a call starts from
Enter(p, o, ec, pub, priv, isnull, size, label) ==
  /\ pc[p] = "idle"
  /\ pc' = [pc EXCEPT ![p] = label]
  /\ op' = [op EXCEPT ![p] = o]
  /\ ec_type' = [ec_type EXCEPT ![p] = ec]
  /\ pubkey_file' = [pubkey_file EXCEPT ![p] = pub]
  /\ privkey_file' = [privkey_file EXCEPT ![p] = priv]
  /\ arr_null' = [arr_null EXCEPT ![p] = isnull]
  /\ key_size' = [key_size EXCEPT ![p] = size]
  /\ pkey' = [pkey EXCEPT ![p] = NoKey]
  /\ ret' = [ret EXCEPT ![p] = 0]
  /\ buf' = [buf EXCEPT ![p] = FreshBuf]
  /\ touched' = [touched EXCEPT ![p] = {}]
  /\ fault' = [fault EXCEPT ![p] = "none"]
  /\ fs0' = [fs0 EXCEPT ![p] = fs]
  /\ flog' = [flog EXCEPT ![p] = <<>>]
  /\ res' = [res EXCEPT ![p] = <<>>]
  /\ UNCHANGED <<filevars, verifyvars>>

\* the caller is done with the results of the call: the frame of the call
\* and the array are given up
Leave(p) ==
  /\ pc[p] = "done"
  /\ pc' = [pc EXCEPT ![p] = "idle"]
  /\ op' = [op EXCEPT ![p] = "none"]
  /\ ec_type' = [ec_type EXCEPT ![p] = ""]
  /\ pubkey_file' = [pubkey_file EXCEPT ![p] = NULL]
  /\ privkey_file' = [privkey_file EXCEPT ![p] = NULL]
  /\ arr_null' = [arr_null EXCEPT ![p] = TRUE]
  /\ key_size' = [key_size EXCEPT ![p] = 0]
  /\ pkey' = [pkey EXCEPT ![p] = NoKey]
  /\ ret' = [ret EXCEPT ![p] = 0]
  /\ buf' = [buf EXCEPT ![p] = FreshBuf]
  /\ touched' = [touched EXCEPT ![p] = {}]
  /\ fault' = [fault EXCEPT ![p] = "none"]
  /\ fs0' = [fs0 EXCEPT ![p] = NoSnapshot]
  /\ flog' = [flog EXCEPT ![p] = <<>>]
  /\ res' = [res EXCEPT ![p] = <<>>]
  /\ UNCHANGED <<filevars, verifyvars>>

\* fopen(path, "w") succeeded: the file exists and is empty
Truncate(path) ==
  /\ fs' = [fs EXCEPT ![path.str] = Empty]
  /\ wrote' = [wrote EXCEPT ![path.str] = NoKey]
  /\ lastOK' = IF lastOK.valid /\ path.str \in {lastOK.pub, lastOK.priv}
               THEN NoPair ELSE lastOK

(***************************************************************************)
(* CreateECCKeysPemFiles(ec_type, pubkey_file, privkey_file)               *)
(***************************************************************************)
\* CreateECCKeysPemFiles after WriteKeysToPEMFiles has returned, with 0 or
\* with 1: EVP_PKEY_free(pkey) and EVP_PKEY_CTX_free(ctx)
CreateCleanup(p) ==
  res' = [res EXCEPT ![p] = IF pc'[p] = "done"
                            THEN Release(Release(@, "pkey"), "ctx")
                            ELSE @]

CallCreate(p) ==
  \E ec \in CurveArgs, pub \in WritePaths, priv \in WritePaths :
    Enter(p, "Create", ec, pub, priv, TRUE, 0, "create_check")

\* the sanity checks of the arguments
CreateArgsOk(ec, pub, priv) ==
  /\ ec # ""
  /\ VerifyPemFileFormat(pub) # 0
  /\ VerifyPemFileFormat(priv) # 0

CreateCheck(p) ==
  /\ pc[p] = "create_check"
  /\ IF CreateArgsOk(ec_type[p], pubkey_file[p], privkey_file[p])
     THEN Goto(p, "create_keygen") /\ UNCHANGED ret
     ELSE Return(p, 0)
  /\ UNCHANGED <<filevars, argvars, pkey, buf, touched, fault, flog,
                 verifyvars>>

  /\ UNCHANGED res
\* context, curve and key generation.  An unknown name gives NID_undef,
\* for which EVP_PKEY_CTX_set_ec_paramgen_curve_nid or, in builds where
\* that only records the name, EVP_PKEY_keygen fails.
CreateKeygen(p) ==
  /\ pc[p] = "create_keygen"
  /\ LET nid == OBJ_txt2nid(ec_type[p])
     IN  \/ /\ Fail(p, "EVP_PKEY_CTX_new_id")
            /\ Return(p, 0)
            /\ UNCHANGED <<pkey, res>>
         \/ /\ Fail(p, "EVP_PKEY_keygen_init")
            /\ res' = [res EXCEPT ![p] = Release(Acquire(@, "ctx"), "ctx")]
            /\ Return(p, 0)
            /\ UNCHANGED pkey
         \/ /\ nid = "undef"
            /\ res' = [res EXCEPT ![p] = Release(Acquire(@, "ctx"), "ctx")]
            /\ Return(p, 0)
            /\ UNCHANGED <<pkey, fault>>
         \/ /\ nid # "undef"
            /\ Fail(p, "EVP_PKEY_keygen")
            /\ res' = [res EXCEPT ![p] = Release(Acquire(@, "ctx"), "ctx")]
            /\ Return(p, 0)
            /\ UNCHANGED pkey
         \/ /\ nid # "undef"
            /\ \E k \in KeysOf(nid) : pkey' = [pkey EXCEPT ![p] = k]
            /\ res' = [res EXCEPT ![p] = Acquire(Acquire(@, "ctx"), "pkey")]
            /\ Goto(p, "write_open_priv")
            /\ UNCHANGED <<ret, fault>>
  /\ UNCHANGED <<filevars, argvars, buf, touched, flog, verifyvars>>

\* WriteKeysToPEMFiles: fopen(privkey_file, "w")
WriteOpenPriv(p) ==
  /\ pc[p] = "write_open_priv"
  /\ \/ /\ Log(p, "fopen", "privkey_fp", FALSE)
        /\ Fail(p, "fopen privkey_file")
        /\ Return(p, 0)
        /\ UNCHANGED filevars
     \/ /\ Log(p, "fopen", "privkey_fp", TRUE)
        /\ Truncate(privkey_file[p])
        /\ Goto(p, "write_priv")
        /\ UNCHANGED <<ret, fault>>
  /\ UNCHANGED <<argvars, pkey, buf, touched, verifyvars>>

  /\ CreateCleanup(p)
\* a write step that takes the key from a static shared by the callers: it
\* holds the key another caller generated, when there is one
WritePriv_static(p) ==
  /\ pc[p] = "write_priv"
  /\ Log(p, "fclose", "privkey_fp", TRUE)
  /\ LET others == {q \in Procs \ {p} : pkey[q] # NoKey}
         shared == IF others = {} THEN pkey[p]
                   ELSE pkey[CHOOSE q \in others : TRUE]
     IN  \/ /\ \E c \in {fs[privkey_file[p].str], Partial} :
                  fs' = [fs EXCEPT ![privkey_file[p].str] = c]
            /\ Fail(p, "PEM_write_PrivateKey")
            /\ Return(p, 0)
            /\ UNCHANGED <<wrote, lastOK>>
         \/ /\ fs' = [fs EXCEPT ![privkey_file[p].str] = PEM_write_PrivateKey(shared)]
            /\ wrote' = [wrote EXCEPT ![privkey_file[p].str] = shared]
            /\ Goto(p, "write_open_pub")
            /\ UNCHANGED <<lastOK, ret, fault>>
  /\ UNCHANGED <<argvars, pkey, buf, touched, verifyvars>>

  /\ CreateCleanup(p)
\* WriteKeysToPEMFiles: PEM_write_PrivateKey and fclose(privkey_fp).  A
\* failed write leaves the file as it is, which is empty unless another
\* caller wrote it since the open, or with the first part of the block.
WritePriv(p) ==
  /\ pc[p] = "write_priv"
  /\ Log(p, "fclose", "privkey_fp", TRUE)
  /\ \/ /\ \E c \in {fs[privkey_file[p].str], Partial} :
             fs' = [fs EXCEPT ![privkey_file[p].str] = c]
        /\ Fail(p, "PEM_write_PrivateKey")
        /\ Return(p, 0)
        /\ UNCHANGED <<wrote, lastOK>>
     \/ /\ fs' = [fs EXCEPT ![privkey_file[p].str] = PEM_write_PrivateKey(pkey[p])]
        /\ wrote' = [wrote EXCEPT ![privkey_file[p].str] = pkey[p]]
        /\ Goto(p, "write_open_pub")
        /\ UNCHANGED <<lastOK, ret, fault>>
  /\ UNCHANGED <<argvars, pkey, buf, touched, verifyvars>>

  /\ CreateCleanup(p)
\* an open that keeps a file that is there already (mode "wx"): the call
\* goes on to report success without having written the public key
WriteOpenPub_excl(p) ==
  /\ pc[p] = "write_open_pub"
  /\ \/ /\ fs[pubkey_file[p].str].kind # "absent"
        /\ Log(p, "fopen", "pubkey_fp", FALSE)
        /\ Return(p, 1)
        /\ UNCHANGED <<filevars, fault>>
     \/ /\ fs[pubkey_file[p].str].kind = "absent"
        /\ Log(p, "fopen", "pubkey_fp", TRUE)
        /\ Truncate(pubkey_file[p])
        /\ Goto(p, "write_pub")
        /\ UNCHANGED <<ret, fault>>
  /\ UNCHANGED <<argvars, pkey, buf, touched, verifyvars>>

  /\ CreateCleanup(p)
\* WriteKeysToPEMFiles: fopen(pubkey_file, "w")
WriteOpenPub(p) ==
  /\ pc[p] = "write_open_pub"
  /\ \/ /\ Log(p, "fopen", "pubkey_fp", FALSE)
        /\ Fail(p, "fopen pubkey_file")
        /\ Return(p, 0)
        /\ UNCHANGED filevars
     \/ /\ Log(p, "fopen", "pubkey_fp", TRUE)
        /\ Truncate(pubkey_file[p])
        /\ Goto(p, "write_pub")
        /\ UNCHANGED <<ret, fault>>
  /\ UNCHANGED <<argvars, pkey, buf, touched, verifyvars>>

  /\ CreateCleanup(p)
\* a write step that returns on the error path without closing the file
WritePub_noclose(p) ==
  /\ pc[p] = "write_pub"
  /\ \/ /\ \E c \in {fs[pubkey_file[p].str], Partial} :
             fs' = [fs EXCEPT ![pubkey_file[p].str] = c]
        /\ Fail(p, "PEM_write_PUBKEY")
        /\ Return(p, 0)
        /\ UNCHANGED <<wrote, lastOK, flog>>
     \/ /\ Log(p, "fclose", "pubkey_fp", TRUE)
        /\ fs' = [fs EXCEPT ![pubkey_file[p].str] = PEM_write_PUBKEY(pkey[p])]
        /\ wrote' = [wrote EXCEPT ![pubkey_file[p].str] = pkey[p]]
        /\ lastOK' = IF pubkey_file[p] # privkey_file[p]
                     THEN [valid |-> TRUE, pub |-> pubkey_file[p].str,
                           priv |-> privkey_file[p].str, key |-> pkey[p]]
                     ELSE NoPair
        /\ Return(p, 1)
        /\ UNCHANGED fault
  /\ UNCHANGED <<argvars, pkey, buf, touched, verifyvars>>

  /\ CreateCleanup(p)
\* a write step that does not test the result of PEM_write_PUBKEY
WritePub_unchecked(p) ==
  /\ pc[p] = "write_pub"
  /\ Log(p, "fclose", "pubkey_fp", TRUE)
  /\ \/ /\ \E c \in {fs[pubkey_file[p].str], Partial} :
             fs' = [fs EXCEPT ![pubkey_file[p].str] = c]
        /\ Fail(p, "PEM_write_PUBKEY")
        /\ Return(p, 1)
        /\ UNCHANGED <<wrote, lastOK>>
     \/ /\ fs' = [fs EXCEPT ![pubkey_file[p].str] = PEM_write_PUBKEY(pkey[p])]
        /\ wrote' = [wrote EXCEPT ![pubkey_file[p].str] = pkey[p]]
        /\ lastOK' = IF pubkey_file[p] # privkey_file[p]
                     THEN [valid |-> TRUE, pub |-> pubkey_file[p].str,
                           priv |-> privkey_file[p].str, key |-> pkey[p]]
                     ELSE NoPair
        /\ Return(p, 1)
        /\ UNCHANGED fault
  /\ UNCHANGED <<argvars, pkey, buf, touched, verifyvars>>

  /\ CreateCleanup(p)
\* WriteKeysToPEMFiles: PEM_write_PUBKEY and fclose(pubkey_fp); the caller
\* returns 1 when both files were written
WritePub(p) ==
  /\ pc[p] = "write_pub"
  /\ Log(p, "fclose", "pubkey_fp", TRUE)
  /\ \/ /\ \E c \in {fs[pubkey_file[p].str], Partial} :
             fs' = [fs EXCEPT ![pubkey_file[p].str] = c]
        /\ Fail(p, "PEM_write_PUBKEY")
        /\ Return(p, 0)
        /\ UNCHANGED <<wrote, lastOK>>
     \/ /\ fs' = [fs EXCEPT ![pubkey_file[p].str] = PEM_write_PUBKEY(pkey[p])]
        /\ wrote' = [wrote EXCEPT ![pubkey_file[p].str] = pkey[p]]
        /\ lastOK' = IF pubkey_file[p] # privkey_file[p]
                     THEN [valid |-> TRUE, pub |-> pubkey_file[p].str,
                           priv |-> privkey_file[p].str, key |-> pkey[p]]
                     ELSE NoPair
        /\ Return(p, 1)
        /\ UNCHANGED fault
  /\ UNCHANGED <<argvars, pkey, buf, touched, verifyvars>>

  /\ CreateCleanup(p)
(***************************************************************************)
(* ReadPrivateKeyPemFile(privkey_file, private_key, key_size)              *)
(***************************************************************************)
\* sizes of the private_key array the callers pass
KeySizes == {0, 1, 31, 32, 33}

\* sizes of the public_key array the callers pass
CompressedSizes == {0, 29, 32, 33, 34}

\* the array after its first Len(bytes) cells were written
WriteBuf(b, bytes) ==
  [i \in 1..BufCap |-> IF i <= Len(bytes) THEN bytes[i] ELSE b[i]]

CallReadPrivate(p) ==
  \E file \in ReadPaths, isnull \in BOOLEAN, size \in KeySizes :
    Enter(p, "ReadPrivate", "", NULL, file, isnull, size, "rpriv_check")

\* the checks without the one of key_size
ReadPrivateArgsOk_nosize(file, isnull, size) ==
  /\ VerifyPemFileFormat(file) # 0
  /\ ~isnull

\* the validation of the input parameters
ReadPrivateArgsOk(file, isnull, size) ==
  /\ VerifyPemFileFormat(file) # 0
  /\ ~isnull
  /\ size # 0

ReadPrivateCheck(p) ==
  /\ pc[p] = "rpriv_check"
  /\ IF ReadPrivateArgsOk(privkey_file[p], arr_null[p], key_size[p])
     THEN Goto(p, "rpriv_open") /\ UNCHANGED ret
     ELSE Return(p, 0)
  /\ UNCHANGED <<filevars, argvars, pkey, buf, touched, fault, flog,
                 verifyvars>>

  /\ UNCHANGED res
\* an open in mode "w+": the file is created or cut to length 0
ReadPrivateOpen_wplus(p) ==
  /\ pc[p] = "rpriv_open"
  /\ Log(p, "fopen", "pem_file", TRUE)
  /\ Truncate(privkey_file[p])
  /\ Goto(p, "rpriv_parse")
  /\ UNCHANGED <<argvars, pkey, ret, buf, touched, fault, verifyvars>>
  /\ UNCHANGED res

\* fopen(privkey_file, "r")
ReadPrivateOpen(p) ==
  /\ pc[p] = "rpriv_open"
  /\ IF fs[privkey_file[p].str].kind = "absent"
     THEN Log(p, "fopen", "pem_file", FALSE) /\ Return(p, 0)
     ELSE Log(p, "fopen", "pem_file", TRUE) /\ Goto(p, "rpriv_parse")
          /\ UNCHANGED ret
  /\ UNCHANGED <<filevars, argvars, pkey, buf, touched, fault, verifyvars>>

  /\ UNCHANGED res
\* a parse step that reports a block it cannot read with a code of its own
ReadPrivateParse_errcode(p) ==
  /\ pc[p] = "rpriv_parse"
  /\ Log(p, "fclose", "pem_file", TRUE)
  /\ LET k == PEM_read_PrivateKey(fs[privkey_file[p].str])
     IN  /\ pkey' = [pkey EXCEPT ![p] = k]
         /\ res' = [res EXCEPT ![p] = IF k = NoKey THEN @
                                      ELSE Acquire(@, "pkey")]
         /\ IF k = NoKey
            THEN Return(p, 0 - 1)
            ELSE Goto(p, "rpriv_convert") /\ UNCHANGED ret
  /\ UNCHANGED <<filevars, argvars, buf, touched, fault, verifyvars>>

\* PEM_read_PrivateKey and fclose(pem_file)
ReadPrivateParse(p) ==
  /\ pc[p] = "rpriv_parse"
  /\ Log(p, "fclose", "pem_file", TRUE)
  /\ LET k == PEM_read_PrivateKey(fs[privkey_file[p].str])
     IN  /\ pkey' = [pkey EXCEPT ![p] = k]
         /\ res' = [res EXCEPT ![p] = IF k = NoKey THEN @
                                      ELSE Acquire(@, "pkey")]
         /\ IF k = NoKey
            THEN Return(p, 0)
            ELSE Goto(p, "rpriv_convert") /\ UNCHANGED ret
  /\ UNCHANGED <<filevars, argvars, buf, touched, fault, verifyvars>>

\* EVP_PKEY_get1_EC_KEY, EC_KEY_get0_private_key, BN_bn2binpad
ReadPrivateConvert(p) ==
  /\ pc[p] = "rpriv_convert"
  /\ \/ /\ pkey[p].alg # "EC"
        /\ res' = [res EXCEPT ![p] = Release(@, "pkey")]
        /\ Return(p, 0)
        /\ UNCHANGED <<buf, touched, fault>>
     \/ /\ pkey[p].alg = "EC"
        /\ Fail(p, "EVP_PKEY_get1_EC_KEY")
        /\ res' = [res EXCEPT ![p] = Release(@, "pkey")]
        /\ Return(p, 0)
        /\ UNCHANGED <<buf, touched>>
     \/ /\ pkey[p].alg = "EC"
        /\ Fail(p, "EC_KEY_get0_private_key")
        /\ res' = [res EXCEPT ![p] =
                     Release(Release(Acquire(@, "ec_key"), "ec_key"), "pkey")]
        /\ Return(p, 0)
        /\ UNCHANGED <<buf, touched>>
     \/ /\ pkey[p].alg = "EC"
        /\ LET conv == BN_bn2binpad(pkey[p].d, key_size[p])
           IN  IF conv.ret < 0
               THEN Return(p, 0) /\ UNCHANGED <<buf, touched>>
               ELSE /\ buf' = [buf EXCEPT ![p] = WriteBuf(@, conv.bytes)]
                    /\ touched' = [touched EXCEPT ![p] = 1..Len(conv.bytes)]
                    /\ Return(p, 1)
        /\ res' = [res EXCEPT ![p] =
                     Release(Release(Acquire(@, "ec_key"), "ec_key"), "pkey")]
        /\ UNCHANGED fault
  /\ UNCHANGED <<filevars, argvars, pkey, flog, verifyvars>>

(***************************************************************************)
(* ReadPublicKeyPemFile(pubkey_file, public_key, compressed_key_size)      *)
(***************************************************************************)
CallReadPublic(p) ==
  \E file \in ReadPaths, isnull \in BOOLEAN, size \in CompressedSizes :
    Enter(p, "ReadPublic", "", file, NULL, isnull, size, "rpub_check")

\* the checks of the variants that reject only a size of 0
ReadPublicArgsOk_nonzero(file, isnull, size) ==
  /\ VerifyPemFileFormat(file) # 0
  /\ ~isnull
  /\ size # 0

\* the validation of the input parameters
ReadPublicArgsOk(file, isnull, size) ==
  /\ VerifyPemFileFormat(file) # 0
  /\ ~isnull
  /\ ~(size # 33)

ReadPublicCheck(p) ==
  /\ pc[p] = "rpub_check"
  /\ IF ReadPublicArgsOk(pubkey_file[p], arr_null[p], key_size[p])
     THEN Goto(p, "rpub_open") /\ UNCHANGED ret
     ELSE Return(p, 0)
  /\ UNCHANGED <<filevars, argvars, pkey, buf, touched, fault, flog,
                 verifyvars>>

  /\ UNCHANGED res
\* fopen(pubkey_file, "r")
ReadPublicOpen(p) ==
  /\ pc[p] = "rpub_open"
  /\ IF fs[pubkey_file[p].str].kind = "absent"
     THEN Log(p, "fopen", "pem_file", FALSE) /\ Return(p, 0)
     ELSE Log(p, "fopen", "pem_file", TRUE) /\ Goto(p, "rpub_parse")
          /\ UNCHANGED ret
  /\ UNCHANGED <<filevars, argvars, pkey, buf, touched, fault, verifyvars>>

  /\ UNCHANGED res
\* PEM_read_PUBKEY and fclose(pem_file)
ReadPublicParse(p) ==
  /\ pc[p] = "rpub_parse"
  /\ Log(p, "fclose", "pem_file", TRUE)
  /\ LET k == PEM_read_PUBKEY(fs[pubkey_file[p].str])
     IN  /\ pkey' = [pkey EXCEPT ![p] = k]
         /\ res' = [res EXCEPT ![p] = IF k = NoKey THEN @
                                      ELSE Acquire(@, "pkey")]
         /\ IF k = NoKey
            THEN Return(p, 0)
            ELSE Goto(p, "rpub_convert") /\ UNCHANGED ret
  /\ UNCHANGED <<filevars, argvars, buf, touched, fault, verifyvars>>

\* a conversion step that returns on a length mismatch without EC_KEY_free
ReadPublicConvert_nofree(p) ==
  /\ pc[p] = "rpub_convert"
  /\ \/ /\ pkey[p].alg # "EC"
        /\ res' = [res EXCEPT ![p] = Release(@, "pkey")]
        /\ Return(p, 0)
        /\ UNCHANGED <<buf, touched, fault>>
     \/ /\ pkey[p].alg = "EC"
        /\ Fail(p, "EVP_PKEY_get1_EC_KEY")
        /\ res' = [res EXCEPT ![p] = Release(@, "pkey")]
        /\ Return(p, 0)
        /\ UNCHANGED <<buf, touched>>
     \/ /\ pkey[p].alg = "EC"
        /\ \E f \in {"EC_KEY_get0_public_key", "EC_KEY_get0_group"} :
             Fail(p, f)
        /\ res' = [res EXCEPT ![p] =
                     Release(Release(Acquire(@, "ec_key"), "ec_key"), "pkey")]
        /\ Return(p, 0)
        /\ UNCHANGED <<buf, touched>>
     \/ /\ pkey[p].alg = "EC"
        /\ LET conv == EC_POINT_point2oct(pkey[p].curve, pkey[p], key_size[p])
           IN  /\ buf' = [buf EXCEPT ![p] = WriteBuf(@, conv.bytes)]
               /\ touched' = [touched EXCEPT ![p] = 1..Len(conv.bytes)]
               /\ Return(p, IF conv.ret # key_size[p] THEN 0 ELSE 1)
               /\ res' = [res EXCEPT ![p] =
                            IF conv.ret # key_size[p]
                            THEN Release(Acquire(@, "ec_key"), "pkey")
                            ELSE Release(Release(Acquire(@, "ec_key"), "ec_key"),
                                         "pkey")]
        /\ UNCHANGED fault
  /\ UNCHANGED <<filevars, argvars, pkey, flog, verifyvars>>

\* EVP_PKEY_get1_EC_KEY, EC_KEY_get0_public_key, EC_KEY_get0_group,
\* EC_POINT_point2oct.  A conversion that returns a length other than
\* compressed_key_size has still written that many bytes.
ReadPublicConvert(p) ==
  /\ pc[p] = "rpub_convert"
  /\ \/ /\ pkey[p].alg # "EC"
        /\ res' = [res EXCEPT ![p] = Release(@, "pkey")]
        /\ Return(p, 0)
        /\ UNCHANGED <<buf, touched, fault>>
     \/ /\ pkey[p].alg = "EC"
        /\ Fail(p, "EVP_PKEY_get1_EC_KEY")
        /\ res' = [res EXCEPT ![p] = Release(@, "pkey")]
        /\ Return(p, 0)
        /\ UNCHANGED <<buf, touched>>
     \/ /\ pkey[p].alg = "EC"
        /\ \E f \in {"EC_KEY_get0_public_key", "EC_KEY_get0_group"} :
             Fail(p, f)
        /\ res' = [res EXCEPT ![p] =
                     Release(Release(Acquire(@, "ec_key"), "ec_key"), "pkey")]
        /\ Return(p, 0)
        /\ UNCHANGED <<buf, touched>>
     \/ /\ pkey[p].alg = "EC"
        /\ LET conv == EC_POINT_point2oct(pkey[p].curve, pkey[p], key_size[p])
           IN  /\ buf' = [buf EXCEPT ![p] = WriteBuf(@, conv.bytes)]
               /\ touched' = [touched EXCEPT ![p] = 1..Len(conv.bytes)]
               /\ Return(p, IF conv.ret # key_size[p] THEN 0 ELSE 1)
        /\ res' = [res EXCEPT ![p] =
                     Release(Release(Acquire(@, "ec_key"), "ec_key"), "pkey")]
        /\ UNCHANGED fault
  /\ UNCHANGED <<filevars, argvars, pkey, flog, verifyvars>>

(***************************************************************************)
(* Specification of the calls made one after the other                     *)
(***************************************************************************)
Step(p) ==
  \/ CallCreate(p)
  \/ CreateCheck(p)
  \/ CreateKeygen(p)
  \/ WriteOpenPriv(p)
  \/ WritePriv(p)
  \/ WriteOpenPub(p)
  \/ WritePub(p)
  \/ CallReadPrivate(p)
  \/ ReadPrivateCheck(p)
  \/ ReadPrivateOpen(p)
  \/ ReadPrivateParse(p)
  \/ ReadPrivateConvert(p)
  \/ CallReadPublic(p)
  \/ ReadPublicCheck(p)
  \/ ReadPublicOpen(p)
  \/ ReadPublicParse(p)
  \/ ReadPublicConvert(p)
  \/ Leave(p)

Next == \E p \in SeqProcs : Step(p)

Spec == Init /\ [][Next]_vars

(***************************************************************************)
(* Specification of two callers that each make one call of                 *)
(* CreateECCKeysPemFiles at the same time; the steps of the two calls      *)
(* interleave in every order.  Both ask for prime256v1, so the blocks that *)
(* meet in one file have the same length and a later write replaces an     *)
(* earlier one byte for byte.                                              *)
(***************************************************************************)
\* the files the two callers write
ConcFiles == {PubPem.str, PrivPem.str, Pub2Pem.str, Priv2Pem.str}

\* the pairs of paths caller p can pass: caller 2 uses the paths of caller
\* 1 or paths of its own
PathPairs(p) ==
  IF p = 1
  THEN {[pub |-> PubPem, priv |-> PrivPem]}
  ELSE {[pub |-> PubPem, priv |-> PrivPem], [pub |-> Pub2Pem, priv |-> Priv2Pem]}

InitConc ==
  /\ InitFixed
  /\ \E c \in InitContents :
       fs = [f \in FileNames |->
               IF f \in ConcFiles THEN c ELSE FixtureContent(f, Absent, Absent)]
  /\ fs0 = [p \in Procs |-> NoSnapshot]
  /\ pem_file = NULL
  /\ vret = 0
  /\ vdone = FALSE

CallCreateConc(p) ==
  \E pair \in PathPairs(p) :
    Enter(p, "Create", "prime256v1", pair.pub, pair.priv, TRUE, 0, "create_check")

StepConc(p) ==
  \/ CallCreateConc(p)
  \/ CreateCheck(p)
  \/ CreateKeygen(p)
  \/ WriteOpenPriv(p)
  \/ WritePriv(p)
  \/ WriteOpenPub(p)
  \/ WritePub(p)

NextConc == \E p \in Procs : StepConc(p)

SpecConc == InitConc /\ [][NextConc]_vars

(***************************************************************************)
(* Specification of two calls made one after the other by two callers,     *)
(* each keeping the result of its call: caller 2 calls when the call of    *)
(* caller 1 has returned.                                                  *)
(***************************************************************************)
CallOnce(p) ==
  /\ \A q \in Procs : q < p => pc[q] = "done"
  /\ \/ \E ec \in {"prime256v1", "not_a_curve"}, pub \in {PubPem, KeyTxt} :
          Enter(p, "Create", ec, pub, PrivPem, TRUE, 0, "create_check")
     \/ \E file \in {PrivPem, KeyTxt, RsaPrivPem}, size \in {1, 32} :
          Enter(p, "ReadPrivate", "", NULL, file, FALSE, size, "rpriv_check")
     \/ \E file \in {PubPem, PrivPem}, size \in {32, 33} :
          Enter(p, "ReadPublic", "", file, NULL, FALSE, size, "rpub_check")

StepOnce(p) ==
  \/ CallOnce(p)
  \/ CreateCheck(p)
  \/ CreateKeygen(p)
  \/ WriteOpenPriv(p)
  \/ WritePriv(p)
  \/ WriteOpenPub(p)
  \/ WritePub(p)
  \/ ReadPrivateCheck(p)
  \/ ReadPrivateOpen(p)
  \/ ReadPrivateParse(p)
  \/ ReadPrivateConvert(p)
  \/ ReadPublicCheck(p)
  \/ ReadPublicOpen(p)
  \/ ReadPublicParse(p)
  \/ ReadPublicConvert(p)

NextOnce == \E p \in Procs : StepOnce(p)

SpecOnce == Init /\ [][NextOnce]_vars

(***************************************************************************)
(* Older versions of the read functions (src/eccpem_read.c).  The argument *)
(* checks, the open and the parse of ReadPrivateKeyPemFile are those of    *)
(* the current version; the conversions differ, and ReadPublicKeyPemFile   *)
(* rejects only a size of 0.                                               *)
(***************************************************************************)
\* the process stops inside the call (abort, signal); the call does not
\* return
Crash(p) ==
  /\ pc' = [pc EXCEPT ![p] = "crashed"]
  /\ UNCHANGED ret

\* the version with memset and BN_bn2bin: EVP_PKEY_get1_EC_KEY,
\* EC_KEY_get0_private_key, memset(private_key, 0, key_size), then the
\* comparison of BN_num_bytes with key_size, then BN_bn2bin
ReadPrivateConvertMemset(p) ==
  /\ pc[p] = "rpriv_convert"
  /\ \/ /\ pkey[p].alg # "EC"
        /\ res' = [res EXCEPT ![p] = Release(@, "pkey")]
        /\ Return(p, 0)
        /\ UNCHANGED <<buf, touched, fault>>
     \/ /\ pkey[p].alg = "EC"
        /\ Fail(p, "EVP_PKEY_get1_EC_KEY")
        /\ res' = [res EXCEPT ![p] = Release(@, "pkey")]
        /\ Return(p, 0)
        /\ UNCHANGED <<buf, touched>>
     \/ /\ pkey[p].alg = "EC"
        /\ Fail(p, "EC_KEY_get0_private_key")
        /\ res' = [res EXCEPT ![p] =
                     Release(Release(Acquire(@, "ec_key"), "pkey"), "ec_key")]
        /\ Return(p, 0)
        /\ UNCHANGED <<buf, touched>>
     \/ /\ pkey[p].alg = "EC"
        /\ LET bn_size == BN_num_bytes(pkey[p].d)
               cleared == WriteBuf(buf[p], Zeros(key_size[p]))
               conv == BN_bn2bin(pkey[p].d)
           IN  /\ touched' = [touched EXCEPT ![p] = 1..key_size[p]]
               /\ IF bn_size > key_size[p]
                  THEN /\ buf' = [buf EXCEPT ![p] = cleared]
                       /\ Return(p, 0)
                  ELSE /\ buf' = [buf EXCEPT ![p] = WriteBuf(cleared, conv.bytes)]
                       /\ Return(p, IF conv.ret # bn_size THEN 0 ELSE 1)
        /\ res' = [res EXCEPT ![p] =
                     Release(Release(Acquire(@, "ec_key"), "pkey"), "ec_key")]
        /\ UNCHANGED fault
  /\ UNCHANGED <<filevars, argvars, pkey, flog, verifyvars>>

\* the validation of the input parameters of the versions with
\* i2o_ECPublicKey
ReadPublicArgsOkI2o(file, isnull, size) ==
  /\ VerifyPemFileFormat(file) # 0
  /\ ~isnull
  /\ ~(size = 0)

ReadPublicCheckI2o(p) ==
  /\ pc[p] = "rpub_check"
  /\ IF ReadPublicArgsOkI2o(pubkey_file[p], arr_null[p], key_size[p])
     THEN Goto(p, "rpub_open") /\ UNCHANGED ret
     ELSE Return(p, 0)
  /\ UNCHANGED <<filevars, argvars, pkey, buf, touched, fault, flog,
                 verifyvars>>
  /\ UNCHANGED res

\* EVP_PKEY_get1_EC_KEY, EC_KEY_set_conv_form, i2o_ECPublicKey into
\* public_key, then the comparison of the length with compressed_key_size.
\* A write of more than compressed_key_size bytes goes past the array: the
\* memory behind it is overwritten and the call goes on, or the process
\* stops.
ReadPublicConvertI2o(p) ==
  /\ pc[p] = "rpub_convert"
  /\ \/ /\ pkey[p].alg # "EC"
        /\ res' = [res EXCEPT ![p] = Release(@, "pkey")]
        /\ Return(p, 0)
        /\ UNCHANGED <<buf, touched, fault>>
     \/ /\ pkey[p].alg = "EC"
        /\ Fail(p, "EVP_PKEY_get1_EC_KEY")
        /\ res' = [res EXCEPT ![p] = Release(@, "pkey")]
        /\ Return(p, 0)
        /\ UNCHANGED <<buf, touched>>
     \/ /\ pkey[p].alg = "EC"
        /\ LET conv == i2o_ECPublicKey(pkey[p])
           IN  /\ buf' = [buf EXCEPT ![p] = WriteBuf(@, conv.bytes)]
               /\ touched' = [touched EXCEPT ![p] = 1..Len(conv.bytes)]
               /\ \/ /\ Return(p, IF conv.ret # key_size[p] THEN 0 ELSE 1)
                     /\ res' = [res EXCEPT ![p] =
                                  Release(Release(Acquire(@, "ec_key"), "pkey"),
                                          "ec_key")]
                  \/ /\ conv.ret > key_size[p]
                     /\ Crash(p)
                     /\ res' = [res EXCEPT ![p] = Acquire(@, "ec_key")]
        /\ UNCHANGED fault
  /\ UNCHANGED <<filevars, argvars, pkey, flog, verifyvars>>

(***************************************************************************)
(* Specification of the later of the two older versions of                 *)
(* src/eccpem_read.c (memset and BN_bn2bin, i2o_ECPublicKey), called one   *)
(* call after the other on key files that are there already.               *)
(***************************************************************************)
\* the keys of the files the older versions are run on
OldFixtureKeys ==
  UNION {KeysOf(curve) : curve \in KnownCurves} \cup {ZeroScalarKey}

\* pub.pem and priv.pem before the first call: missing, no PEM text, or
\* the two blocks of one key
OldFixtures ==
  {[pub |-> Absent, priv |-> Absent], [pub |-> Garbage, priv |-> Garbage]}
  \cup {[pub |-> PEM_write_PUBKEY(k), priv |-> PEM_write_PrivateKey(k)] :
          k \in OldFixtureKeys}

InitOld ==
  /\ InitFixed
  /\ \E c \in OldFixtures :
       fs = [f \in FileNames |-> FixtureContent(f, c.pub, c.priv)]
  /\ fs0 = [p \in Procs |-> NoSnapshot]
  /\ pem_file = NULL
  /\ vret = 0
  /\ vdone = FALSE

StepV2(p) ==
  \/ CallReadPrivate(p)
  \/ ReadPrivateCheck(p)
  \/ ReadPrivateOpen(p)
  \/ ReadPrivateParse(p)
  \/ ReadPrivateConvertMemset(p)
  \/ CallReadPublic(p)
  \/ ReadPublicCheckI2o(p)
  \/ ReadPublicOpen(p)
  \/ ReadPublicParse(p)
  \/ ReadPublicConvertI2o(p)
  \/ Leave(p)

NextV2 == \E p \in SeqProcs : StepV2(p)

SpecV2 == InitOld /\ [][NextV2]_vars

(***************************************************************************)
(* The oldest version of the library: CreateECCKeysPemFiles with EC_KEY    *)
(* and the WriteKeysToPEMFiles that writes through BIOs                    *)
(* (src/eccpem_write.c), ReadPrivateKeyPemFile with BN_new and memcpy      *)
(* (src/eccpem_read.c)                                                     *)
(***************************************************************************)
\* EVP_PKEY_assign_EC_KEY: the reference the caller held now belongs to the
\* EVP_PKEY and is freed with it
Assign(log, obj) == Append(log, [call |-> "assign", obj |-> obj])

\* CreateECCKeysPemFiles after WriteKeysToPEMFiles has returned, with 0 or
\* with 1: EVP_PKEY_free(pkey) and EC_KEY_free(ec_key)
CreateCleanupEcKey(log) == Release(Release(log, "pkey"), "ec_key")

\* the paths and curves the callers of this version pass
CallCreateV1(p) ==
  \E ec \in {"prime256v1", "not_a_curve", ""}, pub \in {PubPem, KeyTxt} :
    Enter(p, "Create", ec, pub, PrivPem, TRUE, 0, "create_check")

\* EC_KEY_new_by_curve_name(OBJ_txt2nid(ec_type)), EC_KEY_generate_key,
\* EVP_PKEY_new, EVP_PKEY_assign_EC_KEY, EVP_PKEY_get1_EC_KEY
CreateKeygenEcKey(p) ==
  /\ pc[p] = "create_keygen"
  /\ LET nid == OBJ_txt2nid(ec_type[p])
         made == Acquire(Acquire(res[p], "ec_key"), "pkey")
     IN  \/ /\ nid = "undef"
            /\ Return(p, 0)
            /\ UNCHANGED <<pkey, fault, res>>
         \/ /\ nid # "undef"
            /\ Fail(p, "EC_KEY_new_by_curve_name")
            /\ Return(p, 0)
            /\ UNCHANGED <<pkey, res>>
         \/ /\ nid # "undef"
            /\ \E f \in {"EC_KEY_generate_key", "EVP_PKEY_new"} : Fail(p, f)
            /\ res' = [res EXCEPT ![p] = Release(Acquire(@, "ec_key"), "ec_key")]
            /\ Return(p, 0)
            /\ UNCHANGED pkey
         \/ /\ nid # "undef"
            /\ Fail(p, "EVP_PKEY_assign_EC_KEY")
            /\ res' = [res EXCEPT ![p] = Release(Release(made, "pkey"), "ec_key")]
            /\ Return(p, 0)
            /\ UNCHANGED pkey
         \/ /\ nid # "undef"
            /\ Fail(p, "EVP_PKEY_get1_EC_KEY")
            /\ res' = [res EXCEPT ![p] = Release(Assign(made, "ec_key"), "pkey")]
            /\ Return(p, 0)
            /\ UNCHANGED pkey
         \/ /\ nid # "undef"
            /\ \E k \in KeysOf(nid) : pkey' = [pkey EXCEPT ![p] = k]
            /\ res' = [res EXCEPT ![p] = Acquire(Assign(made, "ec_key"), "ec_key")]
            /\ Goto(p, "bio_open_priv")
            /\ UNCHANGED <<ret, fault>>
  /\ UNCHANGED <<filevars, argvars, buf, touched, flog, verifyvars>>

\* WriteKeysToPEMFiles: out_bio = BIO_new(BIO_s_file()), then
\* out_bio = BIO_new_file(privkey_file, "w"), which replaces the pointer to
\* the first BIO; on NULL the call returns after BIO_free_all(NULL)
BioOpenPriv(p) ==
  /\ pc[p] = "bio_open_priv"
  /\ \/ /\ Fail(p, "BIO_new")
        /\ res' = [res EXCEPT ![p] = CreateCleanupEcKey(@)]
        /\ Return(p, 0)
        /\ UNCHANGED <<filevars, flog>>
     \/ /\ Fail(p, "BIO_new_file privkey_file")
        /\ Log(p, "fopen", "out_bio", FALSE)
        /\ res' = [res EXCEPT ![p] = CreateCleanupEcKey(Acquire(@, "bio"))]
        /\ Return(p, 0)
        /\ UNCHANGED filevars
     \/ /\ Log(p, "fopen", "out_bio", TRUE)
        /\ Truncate(privkey_file[p])
        /\ res' = [res EXCEPT ![p] = Acquire(Acquire(@, "bio"), "privkey_bio")]
        /\ Goto(p, "bio_write_priv")
        /\ UNCHANGED <<ret, fault>>
  /\ UNCHANGED <<argvars, pkey, buf, touched, verifyvars>>

\* WriteKeysToPEMFiles: PEM_write_bio_PrivateKey.  On failure the BIO is
\* freed, which flushes what was written and closes the file.  On success
\* the block is in the buffer of the stream of the BIO and the file is
\* still empty.
BioWritePriv(p) ==
  /\ pc[p] = "bio_write_priv"
  /\ \/ /\ \E c \in {fs[privkey_file[p].str], Partial} :
             fs' = [fs EXCEPT ![privkey_file[p].str] = c]
        /\ Fail(p, "PEM_write_bio_PrivateKey")
        /\ Log(p, "fclose", "out_bio", TRUE)
        /\ res' = [res EXCEPT ![p] = CreateCleanupEcKey(Release(@, "privkey_bio"))]
        /\ Return(p, 0)
        /\ UNCHANGED <<wrote, lastOK>>
     \/ /\ Goto(p, "bio_open_pub")
        /\ UNCHANGED <<filevars, flog, res, ret, fault>>
  /\ UNCHANGED <<argvars, pkey, buf, touched, verifyvars>>

\* WriteKeysToPEMFiles: out_bio = BIO_new_file(pubkey_file, "w"), which
\* replaces the pointer to the BIO of the private-key file
BioOpenPub(p) ==
  /\ pc[p] = "bio_open_pub"
  /\ \/ /\ Fail(p, "BIO_new_file pubkey_file")
        /\ Log(p, "fopen", "out_bio", FALSE)
        /\ res' = [res EXCEPT ![p] = CreateCleanupEcKey(@)]
        /\ Return(p, 0)
        /\ UNCHANGED filevars
     \/ /\ Log(p, "fopen", "out_bio", TRUE)
        /\ Truncate(pubkey_file[p])
        /\ res' = [res EXCEPT ![p] = Acquire(@, "pubkey_bio")]
        /\ Goto(p, "bio_write_pub")
        /\ UNCHANGED <<ret, fault>>
  /\ UNCHANGED <<argvars, pkey, buf, touched, verifyvars>>

\* WriteKeysToPEMFiles: PEM_write_bio_PUBKEY and BIO_free_all(out_bio),
\* which flushes and closes the public-key file.  The block of the private
\* key stays in the buffer of the BIO that is not freed; it reaches the
\* file when the process ends.
BioWritePub(p) ==
  /\ pc[p] = "bio_write_pub"
  /\ Log(p, "fclose", "out_bio", TRUE)
  /\ res' = [res EXCEPT ![p] = CreateCleanupEcKey(Release(@, "pubkey_bio"))]
  /\ \/ /\ \E c \in {fs[pubkey_file[p].str], Partial} :
             fs' = [fs EXCEPT ![pubkey_file[p].str] = c]
        /\ Fail(p, "PEM_write_bio_PUBKEY")
        /\ Return(p, 0)
        /\ UNCHANGED <<wrote, lastOK>>
     \/ /\ fs' = [fs EXCEPT ![pubkey_file[p].str] = PEM_write_PUBKEY(pkey[p])]
        /\ wrote' = [wrote EXCEPT ![pubkey_file[p].str] = pkey[p]]
        /\ Return(p, 1)
        /\ UNCHANGED <<lastOK, fault>>
  /\ UNCHANGED <<argvars, pkey, buf, touched, verifyvars>>

\* the version with BN_new and memcpy: EVP_PKEY_get1_EC_KEY, BN_new, the
\* copy of the BIGNUM, bzero(private_key, key_size), BN_bn2bin.  The branch
\* for a result of 0 frees pkey and ec_key and does not return: both are
\* freed a second time, after which the call returns 1 or the process
\* stops.  BN_bn2bin is given no length: a scalar of more than key_size
\* bytes is written past the array.
ReadPrivateConvertBnNew(p) ==
  /\ pc[p] = "rpriv_convert"
  /\ \/ /\ pkey[p].alg # "EC"
        /\ res' = [res EXCEPT ![p] = Release(@, "pkey")]
        /\ Return(p, 0)
        /\ UNCHANGED <<buf, touched, fault>>
     \/ /\ pkey[p].alg = "EC"
        /\ Fail(p, "EVP_PKEY_get1_EC_KEY")
        /\ res' = [res EXCEPT ![p] = Release(@, "pkey")]
        /\ Return(p, 0)
        /\ UNCHANGED <<buf, touched>>
     \/ /\ pkey[p].alg = "EC"
        /\ Fail(p, "BN_new")
        /\ res' = [res EXCEPT ![p] =
                     Release(Release(Acquire(@, "ec_key"), "pkey"), "ec_key")]
        /\ Return(p, 0)
        /\ UNCHANGED <<buf, touched>>
     \/ /\ pkey[p].alg = "EC"
        /\ LET cleared == WriteBuf(buf[p], Zeros(key_size[p]))
               conv == BN_bn2bin(pkey[p].d)
               held == Acquire(Acquire(res[p], "ec_key"), "bn_privkey")
               freed == Release(Release(held, "pkey"), "ec_key")
           IN  /\ buf' = [buf EXCEPT ![p] = WriteBuf(cleared, conv.bytes)]
               /\ touched' = [touched EXCEPT ![p] =
                                1..key_size[p] \cup 1..Len(conv.bytes)]
               /\ \/ /\ conv.ret # 0
                     /\ res' = [res EXCEPT ![p] = freed]
                     /\ Return(p, 1)
                  \/ /\ conv.ret > key_size[p]
                     /\ res' = [res EXCEPT ![p] = held]
                     /\ Crash(p)
                  \/ /\ conv.ret = 0
                     /\ res' = [res EXCEPT ![p] =
                                  Release(Release(freed, "pkey"), "ec_key")]
                     /\ Return(p, 1)
                  \/ /\ conv.ret = 0
                     /\ res' = [res EXCEPT ![p] = Release(freed, "pkey")]
                     /\ Crash(p)
        /\ UNCHANGED fault
  /\ UNCHANGED <<filevars, argvars, pkey, flog, verifyvars>>

(***************************************************************************)
(* Specification of the oldest version, called one call after the other    *)
(***************************************************************************)
StepV1(p) ==
  \/ CallCreateV1(p)
  \/ CreateCheck(p)
  \/ CreateKeygenEcKey(p)
  \/ BioOpenPriv(p)
  \/ BioWritePriv(p)
  \/ BioOpenPub(p)
  \/ BioWritePub(p)
  \/ CallReadPrivate(p)
  \/ ReadPrivateCheck(p)
  \/ ReadPrivateOpen(p)
  \/ ReadPrivateParse(p)
  \/ ReadPrivateConvertBnNew(p)
  \/ CallReadPublic(p)
  \/ ReadPublicCheckI2o(p)
  \/ ReadPublicOpen(p)
  \/ ReadPublicParse(p)
  \/ ReadPublicConvertI2o(p)
  \/ Leave(p)

NextV1 == \E p \in SeqProcs : StepV1(p)

SpecV1 == InitOld /\ [][NextV1]_vars

(***************************************************************************)
(* Specification of VerifyPemFileFormat called on its own                  *)
(***************************************************************************)
PathAlphabet == {".", "p", "e", "m", "P", "x"}

RECURSIVE StringsUpTo(_)
StringsUpTo(n) ==
  IF n = 0 THEN {<<>>}
  ELSE LET shorter == StringsUpTo(n - 1)
       IN  shorter \cup {Append(s, c) : s \in shorter, c \in PathAlphabet}

\* the paths of the unit tests: "test_pemfile.pem", "test_pemfile.not_pem",
\* "test.txt.pem"
TestPaths ==
  { <<"t", "e", "s", "t", "_", "p", "e", "m", "f", "i", "l", "e", ".", "p", "e", "m">>,
    <<"t", "e", "s", "t", "_", "p", "e", "m", "f", "i", "l", "e", ".", "n", "o", "t", "_", "p", "e", "m">>,
    <<"t", "e", "s", "t", ".", "t", "x", "t", ".", "p", "e", "m">> }

VerifyInputs ==
  {NULL} \cup {S(s) : s \in StringsUpTo(MaxPathLen) \cup TestPaths} \cup ReadPaths

InitVerify ==
  /\ InitFixed
  /\ fs = [f \in FileNames |-> FixtureContent(f, Absent, Absent)]
  /\ fs0 = [p \in Procs |-> NoSnapshot]
  /\ pem_file \in VerifyInputs
  /\ vret = 0
  /\ vdone = FALSE

CallVerify ==
  /\ ~vdone
  /\ vret' = VerifyPemFileFormat(pem_file)
  /\ vdone' = TRUE
  /\ UNCHANGED <<filevars, argvars, pc, pkey, ret, buf, touched, fault, flog,
                 pem_file>>

  /\ UNCHANGED res
NextVerify == CallVerify

SpecVerify == InitVerify /\ [][NextVerify]_vars

(***************************************************************************)
(* Vocabulary of the properties                                            *)
(***************************************************************************)
\* s ends with the four characters ".pem"
EndsWithPem(s) ==
  /\ Len(s) >= 4
  /\ s[Len(s) - 3] = "."
  /\ s[Len(s) - 2] = "p"
  /\ s[Len(s) - 1] = "e"
  /\ s[Len(s)] = "m"

BadPath(q) == q.null \/ ~EndsWithPem(q.str)

\* the number a big-endian byte string stands for, as the byte string
\* without leading zeros
RECURSIVE Num(_)
Num(bytes) ==
  IF Len(bytes) = 0 THEN <<>>
  ELSE IF Head(bytes) # 0 THEN bytes
  ELSE Num(Tail(bytes))

\* the first n cells of the array of p
Prefix(p, n) == SubSeq(buf[p], 1, n)

IsOdd(a) == a # <<>> /\ a[Len(a)] % 2 = 1

Returned(p, o) == pc[p] = "done" /\ op[p] = o

\* the call of p has a malformed argument
MalformedArgs(p) ==
  CASE op[p] = "Create" ->
         ec_type[p] = "" \/ BadPath(pubkey_file[p]) \/ BadPath(privkey_file[p])
    [] op[p] = "ReadPrivate" ->
         BadPath(privkey_file[p]) \/ arr_null[p] \/ key_size[p] = 0
    [] op[p] = "ReadPublic" ->
         BadPath(pubkey_file[p]) \/ arr_null[p] \/ key_size[p] = 0
    [] OTHER -> FALSE

\* the call of p has so far opened no file, changed no file, made no key
\* and written no cell of the array
NoEffect(p) ==
  /\ flog[p] = <<>>
  /\ fs = fs0[p]
  /\ pkey[p] = NoKey
  /\ touched[p] = {}
  /\ buf[p] = FreshBuf

OpenCount(p, h) ==
  Cardinality({i \in 1..Len(flog[p]) :
                 flog[p][i].call = "fopen" /\ flog[p][i].h = h /\ flog[p][i].ok})

CloseCount(p, h) ==
  Cardinality({i \in 1..Len(flog[p]) :
                 flog[p][i].call = "fclose" /\ flog[p][i].h = h})

Handles == {"privkey_fp", "pubkey_fp", "pem_file"}

\* the file the read call of p reads
ReadFile(p) ==
  IF op[p] = "ReadPrivate" THEN privkey_file[p].str ELSE pubkey_file[p].str

(***************************************************************************)
(* Properties                                                              *)
(***************************************************************************)

\* C1: a call of CreateECCKeysPemFiles, ReadPrivateKeyPemFile or
\* ReadPublicKeyPemFile with a malformed argument (NULL path, path not
\* ending in ".pem", NULL curve name, NULL array, size 0) returns 0, and
\* at no point of the call has a file been opened or changed, a key been
\* generated or a cell of the array been written.
C1_MalformedArgsNoEffect ==
  \A p \in Procs :
    (pc[p] # "idle" /\ MalformedArgs(p)) =>
      /\ NoEffect(p)
      /\ pc[p] = "done" => ret[p] = 0

\* a read of the existing file key.txt into a valid array has returned 0
C1_Witness ==
  \E p \in Procs :
    /\ Returned(p, "ReadPrivate")
    /\ privkey_file[p] = KeyTxt
    /\ ~arr_null[p]
    /\ key_size[p] = 32
    /\ fs[KeyTxt.str].kind # "absent"
    /\ ret[p] = 0

C3_UnknownCurveNoFiles ==
  \A p \in Procs :
    ( /\ Returned(p, "Create")
      /\ ec_type[p] # ""
      /\ ec_type[p] \notin KnownCurves
      /\ ~BadPath(pubkey_file[p])
      /\ ~BadPath(privkey_file[p]) ) =>
      /\ ret[p] = 0
      /\ flog[p] = <<>>
      /\ fs[pubkey_file[p].str] = fs0[p][pubkey_file[p].str]
      /\ fs[privkey_file[p].str] = fs0[p][privkey_file[p].str]

\* "not_a_curve" was rejected while pub.pem does not exist and priv.pem
\* holds an earlier key
C3_Witness ==
  \E p \in Procs :
    /\ Returned(p, "Create")
    /\ ec_type[p] = "not_a_curve"
    /\ pubkey_file[p] = PubPem
    /\ privkey_file[p] = PrivPem
    /\ fs[PubPem.str].kind = "absent"
    /\ fs[PrivPem.str].kind = "pem"
    /\ ret[p] = 0

\* C4: when CreateECCKeysPemFiles returns 0 after it opened a destination
\* file for writing, each destination file holds its complete previous
\* content or a complete PEM block of the new key.
C4_NoPartialWrite ==
  \A p \in Procs :
    ( /\ Returned(p, "Create")
      /\ ret[p] = 0
      /\ \E i \in 1..Len(flog[p]) : flog[p][i].call = "fopen" /\ flog[p][i].ok ) =>
      \A f \in {pubkey_file[p].str, privkey_file[p].str} :
        \/ fs[f] = fs0[p][f]
        \/ fs[f] \in {PEM_write_PrivateKey(pkey[p]), PEM_write_PUBKEY(pkey[p])}

\* C5: while the two files of a CreateECCKeysPemFiles that returned 1 for a
\* curve of 32-byte width (pub # priv) have not been opened for writing
\* again, ReadPrivateKeyPemFile(priv, buf, 32) returns 1 with the nonzero
\* scalar of that call in buf and ReadPublicKeyPemFile(pub, buf, 33)
\* returns 1 with the 33 bytes 02/03 || x of the point of that call in buf
\* (no library call of the read failing for lack of resources).
C5_RoundTrip ==
  \A p \in Procs :
    ( /\ pc[p] = "done"
      /\ fault[p] = "none"
      /\ ~arr_null[p]
      /\ lastOK.valid
      /\ FieldLen(lastOK.key.curve) = 32 ) =>
      /\ ( /\ op[p] = "ReadPrivate"
           /\ privkey_file[p] = S(lastOK.priv)
           /\ key_size[p] = 32 ) =>
           /\ ret[p] = 1
           /\ Num(Prefix(p, 32)) = lastOK.key.d
           /\ Prefix(p, 32) # Zeros(32)
      /\ ( /\ op[p] = "ReadPublic"
           /\ pubkey_file[p] = S(lastOK.pub)
           /\ key_size[p] = 33 ) =>
           /\ ret[p] = 1
           /\ buf[p][1] \in {2, 3}
           /\ buf[p][1] = 3 <=> IsOdd(lastOK.key.y)
           /\ Num(SubSeq(buf[p], 2, 33)) = lastOK.key.x

\* the public key of a pair written by a successful call was read back
C5_Witness ==
  \E p \in Procs :
    /\ Returned(p, "ReadPublic")
    /\ lastOK.valid
    /\ FieldLen(lastOK.key.curve) = 32
    /\ pubkey_file[p] = S(lastOK.pub)
    /\ key_size[p] = 33
    /\ ret[p] = 1
    /\ fs[lastOK.priv] = PEM_write_PrivateKey(lastOK.key)

\* C6: when ReadPrivateKeyPemFile returns 1, exactly the first key_size
\* cells of the array were written and, read as a big-endian number, they
\* are the scalar d of the key in the file.
C6_PrivateBigEndianPadded ==
  \A p \in Procs :
    (Returned(p, "ReadPrivate") /\ ret[p] = 1) =>
      /\ wrote[ReadFile(p)] # NoKey
      /\ touched[p] = 1..key_size[p]
      /\ Num(Prefix(p, key_size[p])) = wrote[ReadFile(p)].d

\* a scalar shorter than key_size bytes was read: the array starts with 0
C6_Witness ==
  \E p \in Procs :
    /\ Returned(p, "ReadPrivate")
    /\ ret[p] = 1
    /\ key_size[p] = 32
    /\ Len(wrote[ReadFile(p)].d) < 32
    /\ buf[p][1] = 0

\* the file the read of p reads holds the complete private-key block of an
\* EC key written by CreateECCKeysPemFiles
HoldsPrivateKey(p) ==
  /\ ~privkey_file[p].null
  /\ privkey_file[p].str \in FileNames
  /\ wrote[privkey_file[p].str] # NoKey
  /\ fs[privkey_file[p].str] = PEM_write_PrivateKey(wrote[privkey_file[p].str])

\* C7 as stated: ReadPrivateKeyPemFile returns 1 only when key_size is the
\* byte width w of the curve of the key, and 0 for every other key_size.
C7_ExactWidth ==
  \A p \in Procs :
    (Returned(p, "ReadPrivate") /\ HoldsPrivateKey(p)) =>
      /\ ret[p] = 1 => key_size[p] = FieldLen(wrote[privkey_file[p].str].curve)
      /\ key_size[p] # FieldLen(wrote[privkey_file[p].str].curve) => ret[p] = 0

\* C7 amended: on a file that holds an EC private key, with a valid array,
\* ReadPrivateKeyPemFile returns 1 exactly when key_size is at least the
\* number of bytes of the scalar d without leading zeros, and 0 when
\* key_size is smaller (no library call failing for lack of resources).
C7_AtLeastScalarBytes ==
  \A p \in Procs :
    ( /\ Returned(p, "ReadPrivate")
      /\ HoldsPrivateKey(p)
      /\ ~arr_null[p]
      /\ fault[p] = "none" ) =>
      ret[p] = (IF key_size[p] >= Len(wrote[privkey_file[p].str].d)
                   /\ key_size[p] # 0
                THEN 1 ELSE 0)

\* a read with key_size = 33 of a key of a 32-byte curve has returned 1
C7_Witness ==
  \E p \in Procs :
    /\ Returned(p, "ReadPrivate")
    /\ HoldsPrivateKey(p)
    /\ FieldLen(wrote[privkey_file[p].str].curve) = 32
    /\ key_size[p] = 33
    /\ ret[p] = 1

\* C8: ReadPublicKeyPemFile returns 0 for every compressed_key_size other
\* than 33, and returns 1 only if the compressed key of the file has
\* compressed_key_size bytes.
C8_ExactCompressedWidth ==
  \A p \in Procs :
    Returned(p, "ReadPublic") =>
      /\ key_size[p] # 33 => ret[p] = 0
      /\ ret[p] = 1 =>
           /\ wrote[ReadFile(p)] # NoKey
           /\ 1 + FieldLen(wrote[ReadFile(p)].curve) = key_size[p]

\* a read with size 29 of a secp224r1 key, whose compressed form has 29
\* bytes, has returned 0
C8_Witness ==
  \E p \in Procs :
    /\ Returned(p, "ReadPublic")
    /\ ~arr_null[p]
    /\ key_size[p] = 29
    /\ ~pubkey_file[p].null
    /\ pubkey_file[p].str \in FileNames
    /\ wrote[pubkey_file[p].str] # NoKey
    /\ fs[pubkey_file[p].str] = PEM_write_PUBKEY(wrote[pubkey_file[p].str])
    /\ wrote[pubkey_file[p].str].curve = "secp224r1"
    /\ ret[p] = 0

\* C9: when ReadPublicKeyPemFile returns 1 for a key with point (x, y) on a
\* curve of width w, exactly 1 + w cells were written: cell 0 is 0x02 for
\* even y and 0x03 for odd y, cells 1..w are x in big-endian, zero-padded.
C9_CompressedPoint ==
  \A p \in Procs :
    (Returned(p, "ReadPublic") /\ ret[p] = 1) =>
      LET k == wrote[ReadFile(p)]
          w == FieldLen(k.curve)
      IN  /\ k # NoKey
          /\ touched[p] = 1..(1 + w)
          /\ buf[p][1] = (IF IsOdd(k.y) THEN 3 ELSE 2)
          /\ Num(SubSeq(buf[p], 2, 1 + w)) = k.x

\* a point whose x is shorter than w bytes was read: x is zero-padded
C9_Witness ==
  \E p \in Procs :
    /\ Returned(p, "ReadPublic")
    /\ ret[p] = 1
    /\ Len(wrote[ReadFile(p)].x) < FieldLen(wrote[ReadFile(p)].curve)
    /\ buf[p][2] = 0

\* C10: when a call has returned, with 0 or with 1, every file handle it
\* opened was closed exactly once and none was closed that was not open.
C10_HandlesClosed ==
  \A p \in Procs :
    pc[p] = "done" =>
      \A h \in Handles :
        /\ OpenCount(p, h) <= 1
        /\ CloseCount(p, h) = OpenCount(p, h)

\* the write of the public key failed after both files had been opened
C10_Witness ==
  \E p \in Procs :
    /\ Returned(p, "Create")
    /\ ret[p] = 0
    /\ fault[p] = "PEM_write_PUBKEY"
    /\ OpenCount(p, "privkey_fp") = 1
    /\ OpenCount(p, "pubkey_fp") = 1

\* C11: when CreateECCKeysPemFiles has returned 1 with pubkey_file #
\* privkey_file, the private-key file is exactly the PEM block of the key
\* the call generated and the public-key file exactly the PEM block of its
\* public key, whatever the two files held when the call was made (another
\* key, other text, nothing); nothing of the earlier content is left.
C11_Overwritten ==
  \A p \in Procs :
    ( /\ Returned(p, "Create")
      /\ ret[p] = 1
      /\ pubkey_file[p] # privkey_file[p] ) =>
      /\ pkey[p] # NoKey
      /\ fs[privkey_file[p].str] = PEM_write_PrivateKey(pkey[p])
      /\ fs[pubkey_file[p].str] = PEM_write_PUBKEY(pkey[p])
      /\ PEM_read_PrivateKey(fs[privkey_file[p].str]).d = pkey[p].d
      /\ PEM_read_PUBKEY(fs[pubkey_file[p].str]).x = pkey[p].x
      /\ PEM_read_PUBKEY(fs[pubkey_file[p].str]).y = pkey[p].y

\* a second successful call on paths that held the complete pair of another
\* key
C11_Witness ==
  \E p \in Procs :
    /\ Returned(p, "Create")
    /\ ret[p] = 1
    /\ pubkey_file[p] = PubPem
    /\ privkey_file[p] = PrivPem
    /\ fs0[p][PrivPem.str].kind = "pem"
    /\ fs0[p][PubPem.str].kind = "pem"
    /\ fs0[p][PrivPem.str] # PEM_write_PrivateKey(pkey[p])
    /\ fs0[p][PubPem.str] # PEM_write_PUBKEY(pkey[p])

\* the two callers are in calls of CreateECCKeysPemFiles
BothCreate == \A p \in Procs : pc[p] # "idle" /\ op[p] = "Create"

\* the four paths of the two calls are pairwise different
FourPaths ==
  Cardinality({pubkey_file[1], privkey_file[1],
               pubkey_file[2], privkey_file[2]}) = 4

\* the two calls have the same public and the same private path
SamePaths ==
  /\ pubkey_file[1] = pubkey_file[2]
  /\ privkey_file[1] = privkey_file[2]

\* C12: of two calls of CreateECCKeysPemFiles that run at the same time on
\* four pairwise different paths, under every interleaving of their steps,
\* each call that has returned 1 has in its private-key file and in its
\* public-key file exactly the blocks of the key it generated, and a call
\* that is still running or has not started leaves the other's files as
\* they are.
C12_Independent ==
  \A p \in Procs :
    ( /\ Returned(p, "Create")
      /\ ret[p] = 1
      /\ \A q \in Procs \ {p} : pc[q] = "idle" \/ (BothCreate /\ FourPaths) ) =>
      /\ fs[privkey_file[p].str] = PEM_write_PrivateKey(pkey[p])
      /\ fs[pubkey_file[p].str] = PEM_write_PUBKEY(pkey[p])
      /\ wrote[privkey_file[p].str] = pkey[p]
      /\ wrote[pubkey_file[p].str] = pkey[p]

\* both calls have returned 1 on four different paths with different keys
C12_Witness ==
  /\ BothCreate
  /\ FourPaths
  /\ \A p \in Procs : pc[p] = "done" /\ ret[p] = 1
  /\ pkey[1] # pkey[2]
  /\ fs[PrivPem.str] = PEM_write_PrivateKey(pkey[1])
  /\ fs[Priv2Pem.str] = PEM_write_PrivateKey(pkey[2])

\* C13: two calls of CreateECCKeysPemFiles on the same two paths are not
\* kept apart: when both have returned 1, each file holds the complete
\* block of the call that wrote it last, and nothing makes that the same
\* call for the two files (the witness is the mixed pair).
C13_LastWriterPerFile ==
  (BothCreate /\ SamePaths /\ \A p \in Procs : pc[p] = "done" /\ ret[p] = 1) =>
    /\ fs[privkey_file[1].str] \in {PEM_write_PrivateKey(pkey[q]) : q \in Procs}
    /\ fs[pubkey_file[1].str] \in {PEM_write_PUBKEY(pkey[q]) : q \in Procs}
    /\ wrote[privkey_file[1].str] \in {pkey[q] : q \in Procs}
    /\ wrote[pubkey_file[1].str] \in {pkey[q] : q \in Procs}

\* both calls have returned 1 and the private-key file holds the key of one
\* call, the public-key file the key of the other
C13_Witness ==
  /\ BothCreate
  /\ SamePaths
  /\ \A p \in Procs : pc[p] = "done" /\ ret[p] = 1
  /\ pkey[1].d # pkey[2].d
  /\ \E p \in Procs : \E q \in Procs \ {p} :
       /\ fs[privkey_file[1].str] = PEM_write_PrivateKey(pkey[p])
       /\ fs[pubkey_file[1].str] = PEM_write_PUBKEY(pkey[q])

\* the call of p opened its file for reading and fopen returned NULL
OpenFailed(p) ==
  \E i \in 1..Len(flog[p]) :
    flog[p][i].call = "fopen" /\ flog[p][i].h = "pem_file" /\ ~flog[p][i].ok

\* the call of p has read its file
Parsed(p) ==
  \E i \in 1..Len(flog[p]) : flog[p][i].call = "fclose" /\ flog[p][i].h = "pem_file"

\* the kind of error the call of p has met, "none" when it met none; the
\* names are those of the error taxonomy where it has one
ErrorKind(p) ==
  CASE op[p] = "Create" ->
         IF BadPath(pubkey_file[p]) \/ BadPath(privkey_file[p])
           THEN "InvalidExtension"
         ELSE IF ec_type[p] = "" THEN "InvalidArgument"
         ELSE IF ec_type[p] \notin KnownCurves /\ fault[p] = "none"
           THEN "UnknownCurve"
         ELSE IF fault[p] \in {"fopen privkey_file", "PEM_write_PrivateKey",
                               "fopen pubkey_file", "PEM_write_PUBKEY"}
           THEN "WriteFailure"
         ELSE IF fault[p] # "none" THEN "LibraryFailure"
         ELSE "none"
    [] op[p] \in {"ReadPrivate", "ReadPublic"} ->
         IF BadPath(S(ReadFile(p))) \/ (IF op[p] = "ReadPrivate"
                                        THEN privkey_file[p].null
                                        ELSE pubkey_file[p].null)
           THEN "InvalidExtension"
         ELSE IF arr_null[p] \/ key_size[p] = 0 THEN "InvalidArgument"
         ELSE IF op[p] = "ReadPublic" /\ key_size[p] # 33 THEN "LengthMismatch"
         ELSE IF OpenFailed(p) THEN "FileNotFound"
         ELSE IF Parsed(p) /\ pkey[p] = NoKey THEN "MalformedPem"
         ELSE IF Parsed(p) /\ pkey[p].alg # "EC" THEN "NotAnEcKey"
         ELSE IF fault[p] # "none" THEN "LibraryFailure"
         ELSE IF op[p] = "ReadPrivate" /\ key_size[p] < Len(pkey[p].d)
           THEN "LengthMismatch"
         ELSE IF op[p] = "ReadPublic" /\ key_size[p] # 1 + FieldLen(pkey[p].curve)
           THEN "LengthMismatch"
         ELSE "none"
    [] OTHER -> "none"

\* C14 as stated: the result of a call tells its caller which kind of error
\* occurred, so two calls that met different kinds of error (or one an
\* error and the other none) have different results.
C14_ErrorKindInResult ==
  \A p \in Procs : \A q \in Procs :
    (pc[p] = "done" /\ pc[q] = "done" /\ ErrorKind(p) # ErrorKind(q)) =>
      ret[p] # ret[q]

\* C14 amended: every call has one outcome, 1 or 0, reached without a step
\* being tried twice (no handle is opened a second time); the result is 1
\* exactly when the call met no error and 0 for every kind of error alike.
C14_OneOutcomeZeroOrOne ==
  \A p \in Procs :
    pc[p] = "done" =>
      /\ ret[p] \in {0, 1}
      /\ ret[p] = 1 <=> ErrorKind(p) = "none"
      /\ \A h \in Handles : OpenCount(p, h) + (IF h = "pem_file" /\ OpenFailed(p)
                                                THEN 1 ELSE 0) <= 1
      /\ Len(flog[p]) <= 4

\* one call has failed for a file that is not there and the other for a
\* file that holds no key: both returned 0
C14_Witness ==
  \E p \in Procs : \E q \in Procs :
    /\ pc[p] = "done"
    /\ pc[q] = "done"
    /\ ErrorKind(p) = "FileNotFound"
    /\ ErrorKind(q) = "MalformedPem"
    /\ ret[p] = 0
    /\ ret[q] = 0

\* the file of the path exists
FileExists(q) ==
  /\ ~q.null
  /\ q.str \in FileNames
  /\ fs[q.str].kind # "absent"

\* the file of the path holds a complete PEM block
PemFormatted(q) == FileExists(q) /\ fs[q.str].kind = "pem"

\* C15: VerifyPemFileFormat returns 1 only if the file exists, has the
\* extension .pem and holds properly formatted PEM, and returns 0 if the
\* file does not exist or does not hold properly formatted PEM.
C15_ExistsAndPemFormatted ==
  vdone =>
    /\ vret = 1 =>
         FileExists(pem_file) /\ EndsWithPem(pem_file.str) /\ PemFormatted(pem_file)
    /\ (~FileExists(pem_file) \/ ~PemFormatted(pem_file)) => vret = 0

\* C16: a read with the wrong label fails: ReadPublicKeyPemFile on a
\* private-key file written by CreateECCKeysPemFiles returns 0 and
\* ReadPrivateKeyPemFile on a public-key file written by it returns 0; a
\* file whose BEGIN/END lines are missing or do not match (no text at all,
\* other text, a block without its END line, a block with another END
\* line) makes either read return 0.
C16_WrongLabelFails ==
  \A p \in Procs :
    ( /\ pc[p] = "done"
      /\ op[p] \in {"ReadPrivate", "ReadPublic"}
      /\ ReadFile(p) \in FileNames ) =>
      LET f == ReadFile(p)
      IN  /\ ( /\ op[p] = "ReadPublic"
               /\ wrote[f] # NoKey
               /\ fs[f] = PEM_write_PrivateKey(wrote[f]) ) => ret[p] = 0
          /\ ( /\ op[p] = "ReadPrivate"
               /\ wrote[f] # NoKey
               /\ fs[f] = PEM_write_PUBKEY(wrote[f]) ) => ret[p] = 0
          /\ fs[f].kind \in {"empty", "text", "partial", "mismatched"} => ret[p] = 0

\* ReadPublicKeyPemFile with a valid array of 33 bytes, applied to the
\* private-key file of a prime256v1 key, has returned 0
C16_Witness ==
  \E p \in Procs :
    /\ Returned(p, "ReadPublic")
    /\ pubkey_file[p] = PrivPem
    /\ ~arr_null[p]
    /\ key_size[p] = 33
    /\ wrote[PrivPem.str] # NoKey
    /\ wrote[PrivPem.str].curve = "prime256v1"
    /\ fs[PrivPem.str] = PEM_write_PrivateKey(wrote[PrivPem.str])
    /\ ret[p] = 0

\* C17: at every point of a call of ReadPrivateKeyPemFile or
\* ReadPublicKeyPemFile, whatever key the file holds and whatever the size
\* argument, only cells 0 .. size-1 of the array have been written: every
\* cell from size on is as the caller left it, when the call succeeds and
\* when it fails.
C17_WritesWithinArray ==
  \A p \in Procs :
    op[p] \in {"ReadPrivate", "ReadPublic"} =>
      /\ touched[p] \subseteq 1..key_size[p]
      /\ \A i \in (key_size[p] + 1)..BufCap : buf[p][i] = FreshBuf[i]

\* a secp384r1 key, whose compressed point has 49 bytes, was read into an
\* array of 33 bytes: the call returned 0 and wrote nothing
C17_Witness ==
  \E p \in Procs :
    /\ Returned(p, "ReadPublic")
    /\ key_size[p] = 33
    /\ ~arr_null[p]
    /\ pkey[p].alg = "EC"
    /\ pkey[p].curve = "secp384r1"
    /\ fault[p] = "none"
    /\ ret[p] = 0
    /\ touched[p] = {}

\* position in the log of the call of p of the first entry of the kind,
\* 0 when there is none
LogIndex(p, call, h) ==
  LET hits == {i \in 1..Len(flog[p]) : flog[p][i].call = call /\ flog[p][i].h = h}
  IN  IF hits = {} THEN 0 ELSE CHOOSE i \in hits : \A j \in hits : i <= j

\* C18: WriteKeysToPEMFiles writes the private key first: the public-key
\* file is opened only after the private-key file was written completely
\* and closed, and when the open or the write of the private-key file fails
\* the call returns 0 and the public-key file is as it was when the call
\* was made, neither created nor changed.
C18_PrivateFirst ==
  \A p \in Procs :
    op[p] = "Create" =>
      /\ LogIndex(p, "fopen", "pubkey_fp") # 0 =>
           /\ LogIndex(p, "fclose", "privkey_fp") # 0
           /\ LogIndex(p, "fclose", "privkey_fp") < LogIndex(p, "fopen", "pubkey_fp")
      /\ pc[p] = "write_open_pub" =>
           fs[privkey_file[p].str] = PEM_write_PrivateKey(pkey[p])
      /\ ( /\ pc[p] = "done"
           /\ fault[p] \in {"fopen privkey_file", "PEM_write_PrivateKey"} ) =>
           /\ ret[p] = 0
           /\ fs[pubkey_file[p].str] = fs0[p][pubkey_file[p].str]

\* in the file system F, when priv holds a complete private key and pub a
\* complete public key, the public key is the one of the private key
PairConsistent(F, pub, priv) ==
  LET a == PEM_read_PrivateKey(F[priv])
      b == PEM_read_PUBKEY(F[pub])
  IN  (a # NoKey /\ b # NoKey) =>
        /\ a.curve = b.curve
        /\ a.x = b.x
        /\ a.y = b.y

\* C19: every call of CreateECCKeysPemFiles on paths pub # priv, returning
\* 0 or 1, keeps the two files a consistent pair: if they were consistent
\* when the call was made, then at its return, whenever both files hold a
\* complete key, the public key in pub is the public key of the private
\* key in priv.  So the files stay consistent over any sequence of calls.
C19_PairConsistency ==
  \A p \in Procs :
    ( /\ Returned(p, "Create")
      /\ ~BadPath(pubkey_file[p])
      /\ ~BadPath(privkey_file[p])
      /\ pubkey_file[p] # privkey_file[p]
      /\ PairConsistent(fs0[p], pubkey_file[p].str, privkey_file[p].str) ) =>
      PairConsistent(fs, pubkey_file[p].str, privkey_file[p].str)

\* C20: for all valid .pem paths, pubkey_file = privkey_file included, when
\* CreateECCKeysPemFiles has returned 1 the file of privkey_file holds the
\* private key the call generated, so that a read of it finds the scalar.
C20_PrivateKeyKept ==
  \A p \in Procs :
    (Returned(p, "Create") /\ ret[p] = 1) =>
      /\ PEM_read_PrivateKey(fs[privkey_file[p].str]) # NoKey
      /\ PEM_read_PrivateKey(fs[privkey_file[p].str]).d = pkey[p].d

\* the library objects a call acquires
Objects == {"ctx", "pkey", "ec_key"}

\* how often the first n entries of the log of p acquire, release obj
NewCount(p, obj, n) ==
  Cardinality({i \in 1..n : res[p][i].call = "new" /\ res[p][i].obj = obj})

FreeCount(p, obj, n) ==
  Cardinality({i \in 1..n : res[p][i].call = "free" /\ res[p][i].obj = obj})

\* C24: on every exit path of CreateECCKeysPemFiles, ReadPrivateKeyPemFile
\* and ReadPublicKeyPemFile each library object the call acquired
\* (EVP_PKEY_CTX, EVP_PKEY, EC_KEY reference) is released exactly once
\* before the return: at no point was an object released that was not
\* held, and at the return none is still held.
C24_ReleasedExactlyOnce ==
  \A p \in Procs :
    \A obj \in Objects :
      /\ \A n \in 0..Len(res[p]) :
           /\ FreeCount(p, obj, n) <= NewCount(p, obj, n)
           /\ NewCount(p, obj, n) <= 1
      /\ pc[p] = "done" =>
           FreeCount(p, obj, Len(res[p])) = NewCount(p, obj, Len(res[p]))

\* ReadPublicKeyPemFile returned 0 on the length mismatch of the
\* conversion, having held the EVP_PKEY and the EC_KEY reference
C24_Witness ==
  \E p \in Procs :
    /\ Returned(p, "ReadPublic")
    /\ ret[p] = 0
    /\ touched[p] # {}
    /\ NewCount(p, "pkey", Len(res[p])) = 1
    /\ NewCount(p, "ec_key", Len(res[p])) = 1
    /\ FreeCount(p, "ec_key", Len(res[p])) = 1

\* the call of p is a read call
ReadCall(p) == op[p] \in {"ReadPrivate", "ReadPublic"}

\* C21: ReadPrivateKeyPemFile and ReadPublicKeyPemFile leave the file
\* system unchanged: at every point of a read call and at its return, with
\* 0 or with 1, every file has the content it had when the call was made
\* (none created, truncated, written or removed).
C21_ReadsLeaveFiles ==
  \A p \in SeqProcs :
    ReadCall(p) => fs = fs0[p]

\* a read of a file that is not there has returned: the file is still not
\* there, although the call went as far as fopen
C21_Witness ==
  \E p \in SeqProcs :
    /\ Returned(p, "ReadPrivate")
    /\ OpenFailed(p)
    /\ fs0[p][privkey_file[p].str] = Absent
    /\ fs[privkey_file[p].str] = Absent

\* C22: whenever ReadPublicKeyPemFile returns 0 the public_key array of the
\* caller is unchanged: no cell of it was written by the failed call,
\* whatever the file holds and whatever the curve of the stored key.
C22_FailedReadPublicLeavesArray ==
  \A p \in SeqProcs :
    (Returned(p, "ReadPublic") /\ ret[p] = 0) =>
      /\ touched[p] = {}
      /\ buf[p] = FreshBuf

\* what ReadPrivateKeyPemFile(file, private_key, size) returns on the files
\* as they are, with an array that is not NULL and no library call failing
\* for lack of resources
ReadPrivateResult(file, size) ==
  LET k == PEM_read_PrivateKey(fs[file.str])
  IN  IF /\ ReadPrivateArgsOk(file, FALSE, size)
         /\ fs[file.str].kind # "absent"
         /\ k # NoKey
         /\ k.alg = "EC"
         /\ BN_bn2binpad(k.d, size).ret >= 0
      THEN 1 ELSE 0

\* what ReadPublicKeyPemFile(file, public_key, size) returns, likewise
ReadPublicResult(file, size) ==
  LET k == PEM_read_PUBKEY(fs[file.str])
  IN  IF /\ ReadPublicArgsOk(file, FALSE, size)
         /\ fs[file.str].kind # "absent"
         /\ k # NoKey
         /\ k.alg = "EC"
         /\ EC_POINT_point2oct(k.curve, k, size).ret = size
      THEN 1 ELSE 0

\* C25: every key pair that can be written can be read back: while the two
\* files of a call of CreateECCKeysPemFiles that returned 1 (for whatever
\* curve the library resolves) are as the call left them, there are a
\* key_size and a compressed_key_size for which ReadPrivateKeyPemFile and
\* ReadPublicKeyPemFile return 1 on them.
C25_WrittenPairReadable ==
  lastOK.valid =>
    /\ \E size \in 1..BufCap : ReadPrivateResult(S(lastOK.priv), size) = 1
    /\ \E size \in 1..BufCap : ReadPublicResult(S(lastOK.pub), size) = 1

\* C23: whenever ReadPrivateKeyPemFile returns 0 the private_key array of
\* the caller is unchanged: no cell of it was written or zeroed by the
\* failed call.
C23_FailedReadPrivateLeavesArray ==
  \A p \in SeqProcs :
    (Returned(p, "ReadPrivate") /\ ret[p] = 0) =>
      /\ touched[p] = {}
      /\ buf[p] = FreshBuf

\* C26: in the version of ReadPrivateKeyPemFile with memset and BN_bn2bin,
\* whenever the call returns 1 the key_size cells of the array, read as a
\* big-endian number, are the scalar d of the key in the file (d is padded
\* with zeros on the left, not on the right).
C26_MemsetBigEndian ==
  \A p \in SeqProcs :
    ( /\ Returned(p, "ReadPrivate")
      /\ ret[p] = 1
      /\ BN_num_bytes(pkey[p].d) <= key_size[p] ) =>
      Num(Prefix(p, key_size[p])) = pkey[p].d

\* C27: in the versions of ReadPublicKeyPemFile with i2o_ECPublicKey, for
\* every compressed_key_size with 0 < compressed_key_size < 33 no cell of
\* index >= compressed_key_size is written: the conversion stays within
\* the array whose size the caller declared.
C27_I2oWithinArray ==
  \A p \in SeqProcs :
    ( /\ op[p] = "ReadPublic"
      /\ 0 < key_size[p]
      /\ key_size[p] < 33 ) =>
      touched[p] \subseteq 1..key_size[p]

\* the call of p is in the version with BN_new and memcpy and BN_bn2bin
\* has returned 0 to it
ConversionFailed(p) ==
  /\ op[p] = "ReadPrivate"
  /\ NewCount(p, "bn_privkey", Len(res[p])) = 1
  /\ BN_bn2bin(pkey[p].d).ret = 0

\* C28: in the version of ReadPrivateKeyPemFile with BN_new and memcpy a
\* failed conversion of the bignum is terminal: the call returns 0 right
\* after its cleanup, with pkey and ec_key each released once, and never
\* returns 1 after the failure was detected.
C28_FailedConversionTerminal ==
  \A p \in SeqProcs :
    (ConversionFailed(p) /\ pc[p] \in {"done", "crashed"}) =>
      /\ pc[p] = "done"
      /\ ret[p] = 0
      /\ FreeCount(p, "pkey", Len(res[p])) = 1
      /\ FreeCount(p, "ec_key", Len(res[p])) = 1

\* the BIOs WriteKeysToPEMFiles creates: the BIO_new object and the BIOs of
\* the two files
Bios == {"bio", "privkey_bio", "pubkey_bio"}

\* C29: in the WriteKeysToPEMFiles that writes through BIOs, every BIO the
\* call created is freed (its file flushed and closed) exactly once before
\* CreateECCKeysPemFiles returns, on the success path and on every error
\* path, and the BIO of the private-key file is freed before the public-key
\* file is opened.
C29_BiosFreedOnce ==
  \A p \in SeqProcs :
    Returned(p, "Create") =>
      /\ \A b \in Bios :
           FreeCount(p, b, Len(res[p])) = NewCount(p, b, Len(res[p]))
      /\ \A i \in 1..Len(res[p]) :
           (res[p][i].call = "new" /\ res[p][i].obj = "pubkey_bio") =>
             FreeCount(p, "privkey_bio", i) = NewCount(p, "privkey_bio", i)

====
